---- MODULE Spec2Model ----
(***************************************************************************)
(* RuuviTag advertisement codecs (package tag of marcgeld/ruuvi): the      *)
(* format detector, the unified decoder and the four per-format            *)
(* decode/encode pairs, with Go's float64 arithmetic modelled bit-exactly  *)
(* (IEEE-754 binary64, round to nearest even) on arbitrary-precision       *)
(* naturals, because the decode/encode pairs meet only through float64.    *)
(***************************************************************************)
EXTENDS Integers, Sequences, FiniteSets, TLC

(***************************************************************************)
(* Arbitrary-precision naturals: little-endian sequences of 14-bit limbs   *)
(* without leading (high) zero limbs; <<>> is zero.  TLC's integers are 32 *)
(* bits wide, a float64 significand is 53.                                 *)
(***************************************************************************)
Base == 128 * 128

Min(a, b) == IF a < b THEN a ELSE b

RECURSIVE Pow2(_)
Pow2(n) == IF n = 0 THEN 1 ELSE 2 * Pow2(n - 1)

RECURSIVE BitLen(_)
BitLen(n) == IF n = 0 THEN 0 ELSE 1 + BitLen(n \div 2)

Limb(a, i) == IF i <= Len(a) THEN a[i] ELSE 0

Rest(a) == IF a = <<>> THEN <<>> ELSE Tail(a)

RECURSIVE BNorm(_)
BNorm(a) ==
    IF a = <<>> THEN <<>>
    ELSE IF a[Len(a)] = 0 THEN BNorm(SubSeq(a, 1, Len(a) - 1))
    ELSE a

RECURSIVE BFromNat(_)
BFromNat(n) == IF n = 0 THEN <<>> ELSE <<n % Base>> \o BFromNat(n \div Base)

RECURSIVE BToNat(_)
BToNat(a) == IF a = <<>> THEN 0 ELSE a[1] + Base * BToNat(Tail(a))

RECURSIVE BAddC(_, _, _)
BAddC(a, b, c) ==
    IF a = <<>> /\ b = <<>> THEN (IF c = 0 THEN <<>> ELSE <<c>>)
    ELSE LET s == Limb(a, 1) + Limb(b, 1) + c
         IN  <<s % Base>> \o BAddC(Rest(a), Rest(b), s \div Base)

BAdd(a, b) == BAddC(a, b, 0)

RECURSIVE BSubB(_, _, _)
BSubB(a, b, c) ==
    IF a = <<>> THEN <<>>
    ELSE LET d == a[1] - Limb(b, 1) - c
         IN  IF d < 0 THEN <<d + Base>> \o BSubB(Tail(a), Rest(b), 1)
             ELSE <<d>> \o BSubB(Tail(a), Rest(b), 0)

\* a - b for a >= b
BSub(a, b) == BNorm(BSubB(a, b, 0))

RECURSIVE BCmpFrom(_, _, _)
BCmpFrom(a, b, i) ==
    IF i = 0 THEN 0
    ELSE IF a[i] < b[i] THEN -1
    ELSE IF a[i] > b[i] THEN 1
    ELSE BCmpFrom(a, b, i - 1)

\* -1, 0, 1 as a < b, a = b, a > b
BCmp(a, b) ==
    IF Len(a) < Len(b) THEN -1
    ELSE IF Len(a) > Len(b) THEN 1
    ELSE BCmpFrom(a, b, Len(a))

RECURSIVE BMulSmallC(_, _, _)
BMulSmallC(a, k, c) ==
    IF a = <<>> THEN (IF c = 0 THEN <<>> ELSE <<c>>)
    ELSE LET p == a[1] * k + c
         IN  <<p % Base>> \o BMulSmallC(Tail(a), k, p \div Base)

\* a * k for 0 <= k < Base
BMulSmall(a, k) == IF k = 0 THEN <<>> ELSE BMulSmallC(a, k, 0)

\* a * Base
BUp(a) == IF a = <<>> THEN <<>> ELSE <<0>> \o a

RECURSIVE BMul(_, _)
BMul(a, b) ==
    IF b = <<>> THEN <<>>
    ELSE BAdd(BMulSmall(a, b[1]), BUp(BMul(a, Tail(b))))

RECURSIVE BUpN(_, _)
BUpN(a, n) == IF n = 0 THEN a ELSE BUpN(BUp(a), n - 1)

\* a * 2^n
BShl(a, n) == BUpN(BMulSmall(a, Pow2(n % 14)), n \div 14)

RECURSIVE BDivSmallR(_, _, _, _)
BDivSmallR(a, k, i, r) ==
    IF i = 0 THEN <<>>
    ELSE LET t == r * Base + a[i]
         IN  BDivSmallR(a, k, i - 1, t % k) \o <<t \div k>>

\* a \div k for 0 < k < Base
BDivSmall(a, k) == BNorm(BDivSmallR(a, k, Len(a), 0))

\* a \div 2^n
BShr(a, n) ==
    IF n \div 14 >= Len(a) THEN <<>>
    ELSE BDivSmall(SubSeq(a, n \div 14 + 1, Len(a)), Pow2(n % 14))

BBitLen(a) == IF a = <<>> THEN 0 ELSE 14 * (Len(a) - 1) + BitLen(a[Len(a)])

BIsOdd(a) == a # <<>> /\ a[1] % 2 = 1

RECURSIVE BFixDigit(_, _, _)
\* the largest digit q <= qhat with q * d <= r
BFixDigit(r, d, qhat) ==
    IF BCmp(BMulSmall(d, qhat), r) = 1 THEN BFixDigit(r, d, qhat - 1) ELSE qhat

\* the first guess of a quotient digit, from the leading limbs of r and d
QHat(r, d) ==
    Min(Base - 1, (Limb(r, Len(d) + 1) * Base + Limb(r, Len(d))) \div d[Len(d)])

RECURSIVE BDivStep(_, _, _, _, _)
RECURSIVE BDivDigit(_, _, _, _, _, _)
\* schoolbook long division, one limb of the dividend per step, most
\* significant first; d has its top limb >= Base/2, r < d throughout
BDivStep(n, d, i, q, r) ==
    IF i = 0 THEN [quo |-> BNorm(q), rem |-> r]
    ELSE BDivDigit(n, d, i, q, r, BFixDigit(BNorm(<<n[i]>> \o r), d, QHat(BNorm(<<n[i]>> \o r), d)))

BDivDigit(n, d, i, q, r, qd) ==
    BDivStep(n, d, i - 1, <<qd>> \o q, BSub(BNorm(<<n[i]>> \o r), BMulSmall(d, qd)))

\* [quo |-> n \div d, rem |-> 0 iff d divides n] for d # 0
BDivMod(n, d) ==
    BDivStep(BShl(n, 14 - BitLen(d[Len(d)])), BShl(d, 14 - BitLen(d[Len(d)])),
             Len(BShl(n, 14 - BitLen(d[Len(d)]))), <<>>, <<>>)

(***************************************************************************)
(* float64.  A finite value is (-1)^sign * man * 2^exp with man a 53-bit   *)
(* natural (2^52 <= man < 2^53), or man = <<>> for zero; NaN is apart.     *)
(* Every value the codecs meet is far from the subnormal and overflow      *)
(* ranges, so the exponent is unbounded here.  All operations round to     *)
(* nearest, ties to even, as Go's float64 operators do.                    *)
(***************************************************************************)
NaN == [nan |-> TRUE, sign |-> 0, man |-> <<>>, exp |-> 0]

FZero(s) == [nan |-> FALSE, sign |-> s, man |-> <<>>, exp |-> 0]

Float(s, m, e) == [nan |-> FALSE, sign |-> s, man |-> m, exp |-> e]

\* a rounded significand q of 53 or (after a carry) 54 bits, normalised
FCarry(s, q, e) ==
    IF BBitLen(q) = 54 THEN Float(s, BShr(q, 1), e + 1) ELSE Float(s, q, e)

\* round to nearest, ties to even: q = m \div 2^sh is rounded up when the
\* bits cut off (with the sticky rest below them) exceed half, or equal it
\* and q is odd
RoundUp(m, sh, q, sticky) ==
    \/ BCmp(BSub(m, BShl(q, sh)), BShl(<<1>>, sh - 1)) = 1
    \/ /\ BCmp(BSub(m, BShl(q, sh)), BShl(<<1>>, sh - 1)) = 0
       /\ (sticky \/ BIsOdd(q))

FRoundTo53(s, m, e, sticky, sh, q) ==
    FCarry(s, IF RoundUp(m, sh, q, sticky) THEN BAdd(q, <<1>>) ELSE q, e + sh)

FPackLen(s, m, e, sticky, l) ==
    IF l <= 53 THEN Float(s, BShl(m, 53 - l), e - (53 - l))
    ELSE FRoundTo53(s, m, e, sticky, l - 53, BShr(m, l - 53))

\* the float64 nearest to (-1)^s * (m + t) * 2^e, where 0 < t < 1 iff sticky
FPack(s, m, e, sticky) ==
    IF m = <<>> THEN FZero(s) ELSE FPackLen(s, m, e, sticky, BBitLen(m))

\* float64(n) for an integer n
FInt(n) == FPack(IF n < 0 THEN 1 ELSE 0, BFromNat(IF n < 0 THEN -n ELSE n), 0, FALSE)

FIsNaN(x) == x.nan

FNeg(x) == IF x.nan THEN x ELSE [x EXCEPT !.sign = 1 - x.sign]

FAbs(x) == IF x.nan THEN x ELSE [x EXCEPT !.sign = 0]

\* x * y
FMul(x, y) ==
    IF x.nan \/ y.nan THEN NaN
    ELSE IF x.man = <<>> \/ y.man = <<>> THEN FZero((x.sign + y.sign) % 2)
    ELSE FPack((x.sign + y.sign) % 2, BMul(x.man, y.man), x.exp + y.exp, FALSE)

FPackQuo(s, d, e) == FPack(s, d.quo, e, d.rem # <<>>)

\* x / y for y # 0
FDiv(x, y) ==
    IF x.nan \/ y.nan THEN NaN
    ELSE IF x.man = <<>> THEN FZero((x.sign + y.sign) % 2)
    ELSE FPackQuo((x.sign + y.sign) % 2, BDivMod(BShl(x.man, 56), y.man),
                  x.exp - y.exp - 56)

\* -1, 0, 1 as |x| < |y|, |x| = |y|, |x| > |y| (finite x, y)
FCmpMag(x, y) ==
    IF x.man = <<>> /\ y.man = <<>> THEN 0
    ELSE IF x.man = <<>> THEN -1
    ELSE IF y.man = <<>> THEN 1
    ELSE IF x.exp # y.exp THEN (IF x.exp < y.exp THEN -1 ELSE 1)
    ELSE BCmp(x.man, y.man)

\* (-1)^s1 * mx + (-1)^s2 * my as <<sign, magnitude>>
SignedSum(s1, mx, s2, my) ==
    IF s1 = s2 THEN <<s1, BAdd(mx, my)>>
    ELSE IF BCmp(mx, my) = 0 THEN <<0, <<>>>>
    ELSE IF BCmp(mx, my) = 1 THEN <<s1, BSub(mx, my)>>
    ELSE <<s2, BSub(my, mx)>>

FPackSum(sm, e) == FPack(sm[1], sm[2], e, FALSE)

\* the float64 nearest to (-1)^s1 * m1 * 2^e1 + (-1)^s2 * m2 * 2^e2, both
\* terms nonzero: the sum is formed exactly and rounded once
FSum(s1, m1, e1, s2, m2, e2) ==
    FPackSum(SignedSum(s1, BShl(m1, e1 - Min(e1, e2)), s2, BShl(m2, e2 - Min(e1, e2))),
             Min(e1, e2))

\* x + y
FAdd(x, y) ==
    IF x.nan \/ y.nan THEN NaN
    ELSE IF x.man = <<>> /\ y.man = <<>> THEN FZero(IF x.sign = 1 /\ y.sign = 1 THEN 1 ELSE 0)
    ELSE IF x.man = <<>> THEN y
    ELSE IF y.man = <<>> THEN x
    ELSE FSum(x.sign, x.man, x.exp, y.sign, y.man, y.exp)

\* x * y + z rounded once (a fused multiply-add)
FMulAdd(x, y, z) ==
    IF x.nan \/ y.nan \/ z.nan THEN NaN
    ELSE IF x.man = <<>> \/ y.man = <<>> THEN FAdd(FZero((x.sign + y.sign) % 2), z)
    ELSE IF z.man = <<>> THEN FMul(x, y)
    ELSE FSum((x.sign + y.sign) % 2, BMul(x.man, y.man), x.exp + y.exp,
              z.sign, z.man, z.exp)

\* x - y
FSub(x, y) == FAdd(x, FNeg(y))

\* x < y (false when either is NaN; -0 < +0 is false)
FLt(x, y) ==
    IF x.nan \/ y.nan THEN FALSE
    ELSE IF x.man = <<>> /\ y.man = <<>> THEN FALSE
    ELSE IF x.sign # y.sign THEN x.sign = 1
    ELSE IF x.sign = 0 THEN FCmpMag(x, y) = -1
    ELSE FCmpMag(x, y) = 1

\* x == y (false when either is NaN; -0 == +0)
FEq(x, y) == ~x.nan /\ ~y.nan /\ ~FLt(x, y) /\ ~FLt(y, x)

\* the natural floor(|x|) as an arbitrary-precision natural (finite x)
FFloorMag(x) ==
    IF x.man = <<>> THEN <<>>
    ELSE IF x.exp >= 0 THEN BShl(x.man, x.exp)
    ELSE BShr(x.man, -x.exp)

\* math.Round(x): to the nearest integer, halves away from zero
FRound(x) ==
    IF x.nan \/ x.man = <<>> \/ x.exp >= 0 THEN x
    ELSE FPack(x.sign, BShr(BAdd(BShr(x.man, -x.exp - 1), <<1>>), 1), 0, FALSE)

\* trunc(x) as an integer, for a finite x with |x| < 2^31
FTrunc(x) == (IF x.sign = 1 THEN -1 ELSE 1) * BToNat(FFloorMag(x))

(***************************************************************************)
(* The untyped constants of the source, each converted to the nearest      *)
(* float64 as the compiler does.                                           *)
(***************************************************************************)
F0_005 == FDiv(FInt(5), FInt(1000))

F0_0025 == FDiv(FInt(25), FInt(10000))

F0_01 == FDiv(FInt(1), FInt(100))

F0_5 == FDiv(FInt(1), FInt(2))

F1000 == FInt(1000)

F100 == FInt(100)

(***************************************************************************)
(* What the language leaves to the build.  fma: whether x*y + z is fused   *)
(* into one rounding (arm64, ppc64, s390x, riscv64) or not (amd64).  sat:  *)
(* what a float-to-integer conversion gives when the value does not fit    *)
(* the type ("implementation-dependent"): the low bits of the truncated    *)
(* value (amd64, arm64 for |x| < 2^31) or the nearest bound of the type.   *)
(***************************************************************************)
Builds == [fma : BOOLEAN, sat : BOOLEAN]

\* the n low bits of integer t as an unsigned value
Wrap(t, n) == t % Pow2(n)

\* uintN of a truncated value t
UintOf(b, t, bits) ==
    IF 0 <= t /\ t < Pow2(bits) THEN t
    ELSE IF b.sat THEN (IF t < 0 THEN 0 ELSE Pow2(bits) - 1)
    ELSE Wrap(t, bits)

\* the bits of intN of a truncated value t, as an unsigned value
IntBitsOf(b, t, bits) ==
    IF -Pow2(bits - 1) <= t /\ t < Pow2(bits - 1) THEN Wrap(t, bits)
    ELSE IF b.sat THEN (IF t < 0 THEN Pow2(bits - 1) ELSE Pow2(bits - 1) - 1)
    ELSE Wrap(t, bits)

\* uintN(x) for a float64 x (N = bits)
FToUint(b, x, bits) == UintOf(b, FTrunc(x), bits)

\* the bits of intN(x) for a float64 x, as an unsigned value (N = bits)
FToIntBits(b, x, bits) == IntBitsOf(b, FTrunc(x), bits)

(***************************************************************************)
(* Bytes, pointers and results.  A byte slice is a sequence over 0..255    *)
(* (data[i] of the source is data[i + 1] here).  A pointer is <<>> (nil)   *)
(* or <<v>>.  A (value, error) result has exactly one of val, err set.     *)
(***************************************************************************)
Nil == <<>>

Ptr(v) == <<v>>

IsNil(p) == p = <<>>

Deref(p) == p[1]

Ok(v) == [val |-> Ptr(v), err |-> Nil]

Fail(e) == [val |-> Nil, err |-> Ptr(e)]

\* fmt.Errorf("format %d requires exactly %d bytes, got %d", ...)
ErrLength(format, got) == [msg |-> "requires exactly n bytes", format |-> format, arg |-> got]

\* fmt.Errorf("not format %d data: format byte is 0x%02X", ...)
ErrTag(format, byte) == [msg |-> "not format n data", format |-> format, arg |-> byte]

\* errors.New("data cannot be nil")
ErrNil == [msg |-> "data cannot be nil", format |-> 0, arg |-> 0]

\* fmt.Errorf("data is empty")
ErrEmpty == [msg |-> "data is empty", format |-> 0, arg |-> 0]

\* fmt.Errorf("unknown format: 0x%02X", data[0])
ErrUnknown(byte) == [msg |-> "unknown format", format |-> 0, arg |-> byte]

\* fmt.Errorf("unsupported format: %d", format)
ErrUnsupported(format) == [msg |-> "unsupported format", format |-> format, arg |-> 0]

\* data[i] of the source
At(data, i) == data[i + 1]

\* binary.BigEndian.Uint16(data[i:i+2])
Uint16At(data, i) == At(data, i) * 256 + At(data, i + 1)

\* int16(u) for a uint16 u
Int16(u) == IF u >= 32768 THEN u - 65536 ELSE u

\* int8(u) for a byte u
Int8(u) == IF u >= 128 THEN u - 256 ELSE u

\* binary.BigEndian.PutUint16: the two bytes of a uint16
PutUint16(v) == <<v \div 256, v % 256>>

\* uint16(n) for an int n
Uint16(n) == n % 65536

(***************************************************************************)
(* common.MACAddress                                                       *)
(***************************************************************************)
\* IsInvalid answering true as soon as one byte is 0xFF
IsInvalidAnyByte(m) == \E i \in 1..6 : m[i] = 255

\* MACAddress.IsInvalid: all six bytes are 0xFF
IsInvalid(m) == \A i \in 1..6 : m[i] = 255

\* MACAddressPtr: nil for the invalid address, else a pointer to the address
MACAddressPtr(m) == IF IsInvalid(m) THEN Nil ELSE Ptr(m)

(***************************************************************************)
(* Format 5 (RAWv2)                                                        *)
(***************************************************************************)
\* Temperature of DecodeFormat5: bytes 1-2, signed, 0.005 degrees a step
DecTemperature5(data) ==
    IF Int16(Uint16At(data, 1)) = -32768 THEN Nil
    ELSE Ptr(FMul(FInt(Int16(Uint16At(data, 1))), F0_005))

\* DecHumidity5 without the test for the sentinel
DecHumidity5Unchecked(data) == Ptr(FMul(FInt(Uint16At(data, 3)), F0_0025))

\* Humidity of DecodeFormat5: bytes 3-4, unsigned, 0.0025 % a step
DecHumidity5(data) ==
    IF Uint16At(data, 3) = 65535 THEN Nil
    ELSE Ptr(FMul(FInt(Uint16At(data, 3)), F0_0025))

\* Acceleration of DecodeFormat5: two bytes at i, signed, in mG
DecAcceleration5(data, i) ==
    IF Int16(Uint16At(data, i)) = -32768 THEN Nil
    ELSE Ptr(FDiv(FInt(Int16(Uint16At(data, i))), F1000))

DecodeFormat5(data) ==
    IF Len(data) # 24 THEN Fail(ErrLength(5, Len(data)))
    ELSE IF At(data, 0) # 5 THEN Fail(ErrTag(5, At(data, 0)))
    ELSE LET pressRaw    == Uint16At(data, 5)
             powerInfo   == Uint16At(data, 13)
             battRaw     == powerInfo \div 32
             txRaw       == powerInfo % 32
             movementRaw == At(data, 15)
             seqRaw      == Uint16At(data, 16)
             mac         == SubSeq(data, 19, 24)
         IN  Ok([Temperature   |-> DecTemperature5(data),
                 Humidity      |-> DecHumidity5(data),
                 Pressure      |->
                     IF pressRaw = 65535 THEN Nil ELSE Ptr(pressRaw + 50000),
                 AccelerationX |-> DecAcceleration5(data, 7),
                 AccelerationY |-> DecAcceleration5(data, 9),
                 AccelerationZ |-> DecAcceleration5(data, 11),
                 BatteryVoltage |->
                     IF battRaw = 2047 THEN Nil ELSE Ptr(battRaw + 1600),
                 TxPower |->
                     IF txRaw = 31 THEN Nil ELSE Ptr(txRaw * 2 - 40),
                 MovementCounter |->
                     IF movementRaw = 255 THEN Nil ELSE Ptr(movementRaw),
                 MeasurementSequence |->
                     IF seqRaw = 65535 THEN Nil ELSE Ptr(seqRaw),
                 MACAddress |->
                     IF IsInvalid(mac) THEN Nil ELSE Ptr(mac)])

\* errors.New("empty data")
ErrParseEmpty == [msg |-> "empty data", format |-> 0, arg |-> 0]

\* errors.New("unsupported data format")
ErrParseUnsupported == [msg |-> "unsupported data format", format |-> 0, arg |-> 0]

\* errors.New("invalid data length for format 5")
ErrParseLength == [msg |-> "invalid data length for format 5", format |-> 5, arg |-> 0]

\* Measurement keeping the TX power in 16 unsigned bits
MeasurementTxUnsigned(data) ==
    LET pressureRaw     == Uint16At(data, 5)
        powerInfo       == Uint16At(data, 13)
        batteryRaw      == (powerInfo \div 32) % 2048
        txPowerRaw      == powerInfo % 32
        movementCounter == At(data, 15)
        measurementSeq  == Uint16At(data, 16)
        mac             == SubSeq(data, 19, 24)
    IN  [Temperature   |-> DecTemperature5(data),
         Humidity      |-> DecHumidity5(data),
         Pressure      |->
             IF pressureRaw # 65535 THEN Ptr(pressureRaw + 50000) ELSE Nil,
         AccelerationX |-> DecAcceleration5(data, 7),
         AccelerationY |-> DecAcceleration5(data, 9),
         AccelerationZ |-> DecAcceleration5(data, 11),
         BatteryVoltage |->
             IF batteryRaw # 2047 THEN Ptr(Uint16(batteryRaw + 1600)) ELSE Nil,
         TxPower |->
             IF txPowerRaw # 31 THEN Ptr(Uint16(txPowerRaw * 2 - 40)) ELSE Nil,
         MovementCounter |->
             IF movementCounter # 255 THEN Ptr(movementCounter) ELSE Nil,
         MeasurementSequence |->
             IF measurementSeq # 65535 THEN Ptr(measurementSeq) ELSE Nil,
         MACAddress |->
             IF \E i \in 1..6 : mac[i] # 255 THEN Ptr(mac) ELSE Nil]

\* the Measurement parseFormat5 fills from 24 bytes
Measurement(data) ==
    LET pressureRaw     == Uint16At(data, 5)
        powerInfo       == Uint16At(data, 13)
        batteryRaw      == (powerInfo \div 32) % 2048
        txPowerRaw      == powerInfo % 32
        movementCounter == At(data, 15)
        measurementSeq  == Uint16At(data, 16)
        mac             == SubSeq(data, 19, 24)
    IN  [Temperature   |-> DecTemperature5(data),
         Humidity      |-> DecHumidity5(data),
         Pressure      |->
             IF pressureRaw # 65535 THEN Ptr(pressureRaw + 50000) ELSE Nil,
         AccelerationX |-> DecAcceleration5(data, 7),
         AccelerationY |-> DecAcceleration5(data, 9),
         AccelerationZ |-> DecAcceleration5(data, 11),
         BatteryVoltage |->
             IF batteryRaw # 2047 THEN Ptr(Uint16(batteryRaw + 1600)) ELSE Nil,
         TxPower |->
             IF txPowerRaw # 31 THEN Ptr(Int8(Uint16(txPowerRaw * 2 - 40) % 256)) ELSE Nil,
         MovementCounter |->
             IF movementCounter # 255 THEN Ptr(movementCounter) ELSE Nil,
         MeasurementSequence |->
             IF measurementSeq # 65535 THEN Ptr(measurementSeq) ELSE Nil,
         MACAddress |->
             IF \E i \in 1..6 : mac[i] # 255 THEN Ptr(mac) ELSE Nil]

\* parseFormat5 taking any input of 24 bytes or more
parseFormat5AtLeast24(data) ==
    IF Len(data) < 24 THEN Fail(ErrParseLength)
    ELSE Ok(Measurement(data))

parseFormat5(data) ==
    IF Len(data) # 24 THEN Fail(ErrParseLength)
    ELSE Ok(Measurement(data))

ParseManufacturerData(data) ==
    IF Len(data) = 0 THEN Fail(ErrParseEmpty)
    ELSE IF At(data, 0) = 5 THEN parseFormat5(data)
    ELSE Fail(ErrParseUnsupported)

\* Go's integer division truncates toward zero
QuoT(a, b) == IF a < 0 THEN -((-a) \div b) ELSE a \div b

\* EncTemperature5 rounding the quotient to the nearest integer
EncTemperature5Rounded(b, p) ==
    IF IsNil(p) \/ FIsNaN(Deref(p)) THEN PutUint16(32768)
    ELSE PutUint16(IntBitsOf(b, FTrunc(FRound(FDiv(Deref(p), F0_005))), 16))

\* bytes 1-2 of EncodeFormat5 (and the same statement for each acceleration)
EncTemperature5(b, p) ==
    IF IsNil(p) \/ FIsNaN(Deref(p)) THEN PutUint16(32768)
    ELSE PutUint16(FToIntBits(b, FDiv(Deref(p), F0_005), 16))

EncHumidity5(b, p) ==
    IF IsNil(p) \/ FIsNaN(Deref(p)) THEN PutUint16(65535)
    ELSE PutUint16(FToUint(b, FDiv(Deref(p), F0_0025), 16))

\* EncPressure5 writing zero, not the sentinel, for an absent slot
EncPressure5Zero(p) ==
    IF IsNil(p) THEN PutUint16(0) ELSE PutUint16(Uint16(Deref(p) - 50000))

EncPressure5(p) ==
    IF IsNil(p) THEN PutUint16(65535) ELSE PutUint16(Uint16(Deref(p) - 50000))

EncAcceleration5(b, p) ==
    IF IsNil(p) \/ FIsNaN(Deref(p)) THEN PutUint16(32768)
    ELSE PutUint16(FToIntBits(b, FMul(Deref(p), F1000), 16))

\* EncPowerInfo5 without the 0x1F mask on the TX power
EncPowerInfo5TxUnmasked(batt, tx) ==
    LET hi == IF IsNil(batt) THEN 2047 * 32
              ELSE (Uint16(Deref(batt) - 1600) % 2048) * 32
        lo == IF IsNil(tx) THEN 31
              ELSE Uint16(QuoT(Deref(tx) + 40, 2))
    IN  PutUint16((hi + lo) % 65536)

EncPowerInfo5(batt, tx) ==
    LET hi == IF IsNil(batt) THEN 2047 * 32
              ELSE (Uint16(Deref(batt) - 1600) % 2048) * 32
        lo == IF IsNil(tx) THEN 31
              ELSE Uint16(QuoT(Deref(tx) + 40, 2)) % 32
    IN  PutUint16(hi + lo)

EncodeFormat5(b, data) ==
    IF IsNil(data) THEN Fail(ErrNil)
    ELSE LET d == Deref(data)
         IN  Ok(<<5>>
                \o EncTemperature5(b, d.Temperature)
                \o EncHumidity5(b, d.Humidity)
                \o EncPressure5(d.Pressure)
                \o EncAcceleration5(b, d.AccelerationX)
                \o EncAcceleration5(b, d.AccelerationY)
                \o EncAcceleration5(b, d.AccelerationZ)
                \o EncPowerInfo5(d.BatteryVoltage, d.TxPower)
                \o <<IF IsNil(d.MovementCounter) THEN 255 ELSE Deref(d.MovementCounter)>>
                \o (IF IsNil(d.MeasurementSequence) THEN PutUint16(65535)
                    ELSE PutUint16(Deref(d.MeasurementSequence)))
                \o (IF IsNil(d.MACAddress) THEN <<255, 255, 255, 255, 255, 255>>
                    ELSE Deref(d.MACAddress)))

\* WithManufacturerID writing the identifier big-endian
WithManufacturerIDBigEndian(r) ==
    IF ~IsNil(r.err) THEN Fail(Deref(r.err)) ELSE Ok(<<4, 153>> \o Deref(r.val))

\* the manufacturer identifier 0x0499, little-endian, ahead of the payload r
\* returned by EncodeFormat5
WithManufacturerID(r) ==
    IF ~IsNil(r.err) THEN Fail(Deref(r.err)) ELSE Ok(<<153, 4>> \o Deref(r.val))

\* the Format-5 payload in its manufacturer-data envelope (26 bytes)
EncodeFormat5ManufacturerData(b, data) == WithManufacturerID(EncodeFormat5(b, data))

(***************************************************************************)
(* Formats 2, 3 and 4: the statements the three codecs share               *)
(***************************************************************************)
\* Humidity of DecodeFormat2/3/4: byte 1 in 0.5 % steps, 0 is "no reading"
DecHumidity(data) ==
    IF At(data, 1) = 0 THEN Nil ELSE Ptr(FMul(FInt(At(data, 1)), F0_5))

\* Pressure of DecodeFormat2/3/4: bytes 4-5 plus 50000 Pa, 0 is "no reading"
DecPressure(data) ==
    IF Uint16At(data, 4) = 0 THEN Nil ELSE Ptr(Uint16At(data, 4) + 50000)

\* DecTemperatureWhole taking "no reading" from bytes 2 and 3 as Format 3 does
DecTemperatureWholeBothBytes(data) ==
    IF Int8(At(data, 2)) = 0 /\ At(data, 3) = 0 THEN Nil
    ELSE IF Int8(At(data, 2)) < 0 THEN Ptr(FNeg(FInt(At(data, 2) % 128)))
    ELSE Ptr(FInt(Int8(At(data, 2))))

\* Temperature of DecodeFormat2/4: byte 2 alone, sign and magnitude
DecTemperatureWhole(data) ==
    LET tempSign == Int8(At(data, 2))
    IN  IF tempSign = 0 THEN Nil
        ELSE IF tempSign < 0 THEN Ptr(FNeg(FInt(At(data, 2) % 128)))
        ELSE Ptr(FInt(tempSign))

\* EncHumidity rounding to the nearest half percent
EncHumidityRounded(b, p) ==
    IF IsNil(p) \/ FIsNaN(Deref(p)) THEN 0
    ELSE FToUint(b, FRound(FDiv(Deref(p), F0_5)), 8)

\* Humidity of EncodeFormat2/3/4
EncHumidity(b, p) ==
    IF IsNil(p) \/ FIsNaN(Deref(p)) THEN 0
    ELSE FToUint(b, FDiv(Deref(p), F0_5), 8)

\* EncTemperatureWhole rounding to the nearest degree
EncTemperatureRounded(b, p) ==
    IF IsNil(p) \/ FIsNaN(Deref(p)) THEN <<0, 0>>
    ELSE IF FLt(Deref(p), FZero(0))
    THEN <<128 + (FToIntBits(b, FRound(FNeg(Deref(p))), 8) % 128), 0>>
    ELSE <<FToIntBits(b, FRound(Deref(p)), 8), 0>>

\* Temperature of EncodeFormat2/4: whole degrees, fraction byte 0
EncTemperatureWhole(b, p) ==
    IF IsNil(p) \/ FIsNaN(Deref(p)) THEN <<0, 0>>
    ELSE IF FLt(Deref(p), FZero(0))
    THEN <<128 + (FToIntBits(b, FNeg(Deref(p)), 8) % 128), 0>>
    ELSE <<FToIntBits(b, Deref(p), 8), 0>>

\* Pressure of EncodeFormat2/3/4
EncPressure(p) ==
    IF IsNil(p) THEN PutUint16(0) ELSE PutUint16(Uint16(Deref(p) - 50000))

(***************************************************************************)
(* Format 2 (URL)                                                          *)
(***************************************************************************)
\* DecodeFormat2 without the test of byte 0
DecodeFormat2AnyTag(data) ==
    IF Len(data) # 6 THEN Fail(ErrLength(2, Len(data)))
    ELSE Ok([Humidity    |-> DecHumidity(data),
             Temperature |-> DecTemperatureWhole(data),
             Pressure    |-> DecPressure(data)])

DecodeFormat2(data) ==
    IF Len(data) # 6 THEN Fail(ErrLength(2, Len(data)))
    ELSE IF At(data, 0) # 2 THEN Fail(ErrTag(2, At(data, 0)))
    ELSE Ok([Humidity    |-> DecHumidity(data),
             Temperature |-> DecTemperatureWhole(data),
             Pressure    |-> DecPressure(data)])

EncodeFormat2(b, data) ==
    IF IsNil(data) THEN Fail(ErrNil)
    ELSE LET d == Deref(data)
         IN  Ok(<<2, EncHumidity(b, d.Humidity)>>
                \o EncTemperatureWhole(b, d.Temperature)
                \o EncPressure(d.Pressure))

(***************************************************************************)
(* Format 4 (URL with tag id)                                              *)
(***************************************************************************)
\* DecodeFormat4 looking at byte 0 before the length
DecodeFormat4TagFirst(data) ==
    IF Len(data) > 0 /\ At(data, 0) # 4 THEN Fail(ErrTag(4, At(data, 0)))
    ELSE IF Len(data) # 7 THEN Fail(ErrLength(4, Len(data)))
    ELSE Ok([Humidity    |-> DecHumidity(data),
             Temperature |-> DecTemperatureWhole(data),
             Pressure    |-> DecPressure(data),
             TagID       |-> IF At(data, 6) = 0 THEN Nil ELSE Ptr(At(data, 6))])

DecodeFormat4(data) ==
    IF Len(data) # 7 THEN Fail(ErrLength(4, Len(data)))
    ELSE IF At(data, 0) # 4 THEN Fail(ErrTag(4, At(data, 0)))
    ELSE Ok([Humidity    |-> DecHumidity(data),
             Temperature |-> DecTemperatureWhole(data),
             Pressure    |-> DecPressure(data),
             TagID       |-> IF At(data, 6) = 0 THEN Nil ELSE Ptr(At(data, 6))])

\* EncodeFormat4 without the TagID byte
EncodeFormat4Short(b, data) ==
    IF IsNil(data) THEN Fail(ErrNil)
    ELSE Ok(<<4, EncHumidity(b, Deref(data).Humidity)>>
            \o EncTemperatureWhole(b, Deref(data).Temperature)
            \o EncPressure(Deref(data).Pressure))

EncodeFormat4(b, data) ==
    IF IsNil(data) THEN Fail(ErrNil)
    ELSE LET d == Deref(data)
         IN  Ok(<<4, EncHumidity(b, d.Humidity)>>
                \o EncTemperatureWhole(b, d.Temperature)
                \o EncPressure(d.Pressure)
                \o <<IF IsNil(d.TagID) THEN 0 ELSE Deref(d.TagID)>>)

(***************************************************************************)
(* Format 3 (RAWv1)                                                        *)
(***************************************************************************)
\* whole + fraction * 0.01, in one rounding or two as the build has it
MulAdd(b, x, y, z) == IF b.fma THEN FMulAdd(x, y, z) ELSE FAdd(FMul(x, y), z)

\* DecTemperature3 adding the fraction as a positive amount below zero too
DecTemperature3FractionUp(b, data) ==
    IF Int8(At(data, 2)) = 0 /\ At(data, 3) = 0 THEN Nil
    ELSE IF Int8(At(data, 2)) < 0
    THEN Ptr(FSub(FMul(FInt(At(data, 3)), F0_01), FInt(At(data, 2) % 128)))
    ELSE Ptr(MulAdd(b, FInt(At(data, 3)), F0_01, FInt(Int8(At(data, 2)))))

\* Temperature of DecodeFormat3: bytes 2-3, sign bit, 7-bit whole part and a
\* fraction byte in hundredths
DecTemperature3(b, data) ==
    IF Int8(At(data, 2)) = 0 /\ At(data, 3) = 0 THEN Nil
    ELSE IF Int8(At(data, 2)) < 0
    THEN \* -float64(tempSign&0x7F) - float64(tempFraction)*0.01
         Ptr(FNeg(MulAdd(b, FInt(At(data, 3)), F0_01, FInt(At(data, 2) % 128))))
    ELSE Ptr(MulAdd(b, FInt(At(data, 3)), F0_01, FInt(Int8(At(data, 2)))))

\* DecAcceleration3 with Format 5's sentinel
DecAcceleration3Sentinel(data, i) ==
    IF Int16(Uint16At(data, i)) = -32768 THEN Nil
    ELSE Ptr(FDiv(FInt(Int16(Uint16At(data, i))), F1000))

\* Acceleration of DecodeFormat3: signed 16-bit mG, every value a reading
DecAcceleration3(data, i) == Ptr(FDiv(FInt(Int16(Uint16At(data, i))), F1000))

DecodeFormat3(b, data) ==
    IF Len(data) # 14 THEN Fail(ErrLength(3, Len(data)))
    ELSE IF At(data, 0) # 3 THEN Fail(ErrTag(3, At(data, 0)))
    ELSE Ok([Humidity       |-> DecHumidity(data),
             Temperature    |-> DecTemperature3(b, data),
             Pressure       |-> DecPressure(data),
             AccelerationX  |-> DecAcceleration3(data, 6),
             AccelerationY  |-> DecAcceleration3(data, 8),
             AccelerationZ  |-> DecAcceleration3(data, 10),
             BatteryVoltage |->
                 IF Uint16At(data, 12) = 0 THEN Nil ELSE Ptr(Uint16At(data, 12))])

\* FracPart3 cutting the hundredths, not rounding them
FracPart3Cut(b, t, wholePart) ==
    FToUint(b, FMul(FSub(t, FInt(wholePart)), F100), 8)

\* fracPart of EncodeFormat3: uint8(math.Round((t - float64(wholePart)) * 100))
FracPart3(b, t, wholePart) ==
    FToUint(b, FRound(FMul(FSub(t, FInt(wholePart)), F100)), 8)

\* the two bytes for a temperature of magnitude t, sign bit signBit
SignMagnitude3(b, t, wholePart, signBit) ==
    IF signBit = 1 THEN <<128 + (wholePart % 128), FracPart3(b, t, wholePart)>>
    ELSE <<wholePart % 256, FracPart3(b, t, wholePart)>>

\* Temperature of EncodeFormat3
EncTemperature3(b, p) ==
    IF IsNil(p) \/ FIsNaN(Deref(p)) THEN <<0, 0>>
    ELSE IF FLt(Deref(p), FZero(0))
    THEN SignMagnitude3(b, FNeg(Deref(p)), FTrunc(FNeg(Deref(p))), 1)
    ELSE SignMagnitude3(b, Deref(p), FTrunc(Deref(p)), 0)

\* EncAcceleration3 writing 0x8000 for NaN
EncAcceleration3NaNMarked(b, p) ==
    IF IsNil(p) THEN PutUint16(0)
    ELSE IF FIsNaN(Deref(p)) THEN PutUint16(32768)
    ELSE PutUint16(FToIntBits(b, FMul(Deref(p), F1000), 16))

\* Acceleration of EncodeFormat3
EncAcceleration3(b, p) ==
    IF IsNil(p) \/ FIsNaN(Deref(p)) THEN PutUint16(0)
    ELSE PutUint16(FToIntBits(b, FMul(Deref(p), F1000), 16))

EncodeFormat3(b, data) ==
    IF IsNil(data) THEN Fail(ErrNil)
    ELSE LET d == Deref(data)
         IN  Ok(<<3, EncHumidity(b, d.Humidity)>>
                \o EncTemperature3(b, d.Temperature)
                \o EncPressure(d.Pressure)
                \o EncAcceleration3(b, d.AccelerationX)
                \o EncAcceleration3(b, d.AccelerationY)
                \o EncAcceleration3(b, d.AccelerationZ)
                \o (IF IsNil(d.BatteryVoltage) THEN PutUint16(0)
                    ELSE PutUint16(Uint16(Deref(d.BatteryVoltage)))))

(***************************************************************************)
(* The format detector and the unified decoder                             *)
(***************************************************************************)
\* the formats without Format 4
SupportedFormatsNo4 == {2, 3, 5}

\* the cases of DetectFormat's switch
SupportedFormats == {2, 3, 4, 5}

DetectFormat(data) ==
    IF Len(data) = 0 THEN [val |-> 0, err |-> Ptr(ErrEmpty)]
    ELSE IF At(data, 0) \in SupportedFormats THEN [val |-> At(data, 0), err |-> Nil]
    ELSE [val |-> 0, err |-> Ptr(ErrUnknown(At(data, 0)))]

\* a DecodedData with every reading set
DecodedDataAll(format, decoded) ==
    [Format  |-> format, Format2 |-> decoded, Format3 |-> decoded,
     Format4 |-> decoded, Format5 |-> decoded]

\* a DecodedData with the reading of the detected format set
DecodedData(format, decoded) ==
    [Format  |-> format,
     Format2 |-> IF format = 2 THEN decoded ELSE Nil,
     Format3 |-> IF format = 3 THEN decoded ELSE Nil,
     Format4 |-> IF format = 4 THEN decoded ELSE Nil,
     Format5 |-> IF format = 5 THEN decoded ELSE Nil]

\* the switch of Decode over the detected format
DecodeFormatN(b, format, data) ==
    CASE format = 2 -> DecodeFormat2(data)
      [] format = 3 -> DecodeFormat3(b, data)
      [] format = 4 -> DecodeFormat4(data)
      [] format = 5 -> DecodeFormat5(data)
      [] OTHER      -> Fail(ErrUnsupported(format))

\* Decoded replacing the codec's error by one of its own
DecodedRewrapped(format, r) ==
    IF ~IsNil(r.err) THEN Fail(ErrUnknown(format)) ELSE Ok(DecodedData(format, r.val))

\* Decode after its call of the format's decoder
Decoded(format, r) ==
    IF ~IsNil(r.err) THEN Fail(Deref(r.err)) ELSE Ok(DecodedData(format, r.val))

\* Decode after its call of DetectFormat
Detected(b, data, detected) ==
    IF ~IsNil(detected.err) THEN Fail(Deref(detected.err))
    ELSE Decoded(detected.val, DecodeFormatN(b, detected.val, data))

Decode(b, data) == Detected(b, data, DetectFormat(data))

(***************************************************************************)
(* The inputs of the model.  A frame or a reading is built from one        *)
(* profile p (every field takes the p-th value of its list) with one field *)
(* fld overridden by the j-th value of its list, so that every listed      *)
(* value of a field meets every profile of the other fields.               *)
(***************************************************************************)
NumProfiles == 5

MaxCalls == 3

MaxLen == 25

Sample(list, i) == list[((i - 1) % Len(list)) + 1]

\* the float64 of the decimal literal n / d
Lit(n, d) == FDiv(FInt(n), FInt(d))

\* raw sub-field values of Format-5 frames: the documented scenario, the
\* sentinels, the ends of the ranges and values in between
Raw5 ==
    [Temperature |-> <<4860, -32768, 59, 32767, -32767, 0, -1, -32764>>,
     Humidity    |-> <<21396, 65535, 29, 65534, 0, 59, 1, 40000>>,
     Pressure    |-> <<50044, 65535, 0, 65534, 1, 51325, 30000, 2>>,
     Acceleration |-> <<4, -32768, -32763, 32767, -32767, 0, -4, 1036>>,
     Battery     |-> <<1377, 2047, 0, 2046, 1, 1000, 2000, 500>>,
     TxPower     |-> <<22, 31, 0, 30, 1, 15, 20, 7>>,
     Movement    |-> <<66, 255, 0, 254, 1, 128, 100, 200>>,
     Sequence    |-> <<205, 65535, 0, 65534, 1, 256, 32768, 1000>>,
     MAC         |->
         << <<203, 184, 51, 76, 136, 79>>, <<255, 255, 255, 255, 255, 255>>,
            <<255, 255, 255, 255, 255, 254>>, <<0, 0, 0, 0, 0, 0>>,
            <<254, 255, 255, 255, 255, 255>>, <<1, 2, 3, 4, 5, 6>> >>]

Frame5(p, fld, j) ==
    LET I(f) == IF f = fld THEN j ELSE p
    IN  <<5>>
        \o PutUint16(Wrap(Sample(Raw5.Temperature, I(1)), 16))
        \o PutUint16(Sample(Raw5.Humidity, I(2)))
        \o PutUint16(Sample(Raw5.Pressure, I(3)))
        \o PutUint16(Wrap(Sample(Raw5.Acceleration, I(4)), 16))
        \o PutUint16(Wrap(Sample(Raw5.Acceleration, I(5) + 1), 16))
        \o PutUint16(Wrap(Sample(Raw5.Acceleration, I(6) + 2), 16))
        \o PutUint16(Sample(Raw5.Battery, I(7)) * 32 + Sample(Raw5.TxPower, I(8)))
        \o <<Sample(Raw5.Movement, I(9))>>
        \o PutUint16(Sample(Raw5.Sequence, I(10)))
        \o Sample(Raw5.MAC, I(11))

\* raw sub-field values of Format-2, -3 and -4 frames
Raw234 ==
    [Humidity     |-> <<41, 0, 1, 255, 200, 100, 2, 128>>,
     Temperature  |->
         << <<26, 30>>, <<0, 0>>, <<128, 0>>, <<127, 255>>, <<129, 99>>,
            <<0, 1>>, <<128, 1>>, <<0, 100>>, <<255, 99>>, <<1, 0>> >>,
     Pressure     |-> <<52766, 0, 1, 65535, 51325, 2, 30000, 100>>,
     Acceleration |-> <<-1000, 0, -32768, 32767, -32763, 714, -1726, 1>>,
     Battery      |-> <<2899, 0, 1, 65535, 3000, 2, 1600, 100>>,
     TagID        |-> <<63, 0, 1, 255, 252, 3, 4, 128>>]

\* a frame of Format 2 (6 bytes), 4 (7 bytes) or 3 (14 bytes)
Frame234(format, p, fld, j) ==
    LET I(f) == IF f = fld THEN j ELSE p
    IN  <<format, Sample(Raw234.Humidity, I(1))>>
        \o Sample(Raw234.Temperature, I(2))
        \o PutUint16(Sample(Raw234.Pressure, I(3)))
        \o (IF format = 4 THEN <<Sample(Raw234.TagID, I(4))>>
            ELSE IF format = 3
            THEN PutUint16(Wrap(Sample(Raw234.Acceleration, I(4)), 16))
                 \o PutUint16(Wrap(Sample(Raw234.Acceleration, I(5) + 1), 16))
                 \o PutUint16(Wrap(Sample(Raw234.Acceleration, I(6) + 2), 16))
                 \o PutUint16(Sample(Raw234.Battery, I(7)))
            ELSE <<>>)

\* byte sequences of every length up to MaxLen behind every listed first byte
Padded(tag, n) == [i \in 1..n |-> IF i = 1 THEN tag ELSE (i * 37) % 256]

AnyBytes == {<<>>} \cup {Padded(t, n) : t \in {0, 2, 3, 4, 5, 6, 255}, n \in 1..MaxLen}

Profiles == 1..NumProfiles

\* the places of a list an overridden field draws from
Places == 1..(2 * NumProfiles)

\* the well-formed frames of the four formats
Frames ==
    {Frame5(p, f, j) : p \in Profiles, f \in 1..11, j \in Places}
    \cup {Frame234(3, p, f, j) : p \in Profiles, f \in 1..7, j \in Places}
    \cup {Frame234(2, p, f, j) : p \in Profiles, f \in 1..3, j \in Places}
    \cup {Frame234(4, p, f, j) : p \in Profiles, f \in 1..4, j \in Places}

\* slot values of the Format-5 readings handed to the encoder: in and out of
\* the documented ranges, absent, and NaN
Val5 ==
    [Temperature |->
         <<Ptr(Lit(205, 10)), Nil, Ptr(Lit(295, 1000)), Ptr(NaN), Ptr(FInt(200)),
           Ptr(FNeg(Lit(163835, 1000))), Ptr(Lit(163835, 1000)),
           Ptr(FNeg(Lit(4, 1000)))>>,
     Humidity |->
         <<Ptr(Lit(5349, 100)), Nil, Ptr(Lit(1475, 10000)), Ptr(NaN), Ptr(FInt(-1)),
           Ptr(FZero(0)), Ptr(Lit(163835, 1000)), Ptr(Lit(99999, 1000))>>,
     Pressure |->
         <<Ptr(101325), Nil, Ptr(50000), Ptr(115534), Ptr(115535), Ptr(49999),
           Ptr(100044), Ptr(200000)>>,
     Acceleration |->
         <<Ptr(Lit(1036, 1000)), Nil, Ptr(FNeg(Lit(32763, 1000))), Ptr(NaN),
           Ptr(FInt(40)), Ptr(Lit(32767, 1000)), Ptr(FNeg(Lit(32767, 1000))),
           Ptr(FNeg(Lit(9, 10000)))>>,
     Battery |->
         <<Ptr(2977), Nil, Ptr(1600), Ptr(3646), Ptr(3647), Ptr(1599), Ptr(0),
           Ptr(5000)>>,
     TxPower  |-> <<Ptr(4), Nil, Ptr(-40), Ptr(20), Ptr(22), Ptr(-41), Ptr(3), Ptr(-42)>>,
     Movement |-> <<Ptr(66), Nil, Ptr(0), Ptr(254), Ptr(255), Ptr(1)>>,
     Sequence |-> <<Ptr(205), Nil, Ptr(0), Ptr(65534), Ptr(65535), Ptr(1)>>,
     MAC |->
         <<Ptr(<<203, 184, 51, 76, 136, 79>>), Nil,
           Ptr(<<255, 255, 255, 255, 255, 254>>), Ptr(<<0, 0, 0, 0, 0, 0>>),
           Ptr(<<255, 255, 255, 255, 255, 255>>)>>]

\* a Format5Data with the slot values v
Reading5(v, p, fld, j) ==
    LET I(f) == IF f = fld THEN j ELSE p
    IN  [Temperature         |-> Sample(v.Temperature, I(1)),
         Humidity            |-> Sample(v.Humidity, I(2)),
         Pressure            |-> Sample(v.Pressure, I(3)),
         AccelerationX       |-> Sample(v.Acceleration, I(4)),
         AccelerationY       |-> Sample(v.Acceleration, I(5) + 5),
         AccelerationZ       |-> Sample(v.Acceleration, I(6) + 2),
         BatteryVoltage      |-> Sample(v.Battery, I(7)),
         TxPower             |-> Sample(v.TxPower, I(8)),
         MovementCounter     |-> Sample(v.Movement, I(9)),
         MeasurementSequence |-> Sample(v.Sequence, I(10)),
         MACAddress          |-> Sample(v.MAC, I(11))]

\* slot values of the Format-2, -3 and -4 readings handed to the encoders
Val234 ==
    [Humidity |->
         <<Ptr(Lit(205, 10)), Nil, Ptr(Lit(4, 10)), Ptr(NaN), Ptr(FInt(200)),
           Ptr(Lit(5, 10)), Ptr(Lit(1275, 10)), Ptr(FInt(-1))>>,
     Temperature |->
         <<Ptr(Lit(263, 10)), Nil, Ptr(FNeg(Lit(5, 10))), Ptr(NaN), Ptr(FInt(200)),
           Ptr(Lit(189, 10)), Ptr(FNeg(Lit(189, 10))), Ptr(Lit(4, 1000)),
           Ptr(FNeg(Lit(12799, 100))), Ptr(Lit(19999, 1000))>>,
     Temperature3 |->
         <<Ptr(Lit(263, 10)), Nil, Ptr(FNeg(Lit(5, 10))), Ptr(NaN), Ptr(FInt(200)),
           Ptr(FNeg(Lit(5, 1000))), Ptr(FNeg(Lit(999, 1000))), Ptr(Lit(4, 1000)),
           Ptr(FNeg(Lit(12799, 100))), Ptr(Lit(19999, 1000))>>,
     Pressure |->
         <<Ptr(102766), Nil, Ptr(50000), Ptr(115535), Ptr(115536), Ptr(49999),
           Ptr(50001), Ptr(200000)>>,
     Acceleration |->
         <<Ptr(FNeg(Lit(1726, 1000))), Nil, Ptr(Lit(714, 1000)), Ptr(NaN),
           Ptr(FInt(40)), Ptr(FZero(0)), Ptr(FNeg(Lit(32763, 1000))),
           Ptr(Lit(32767, 1000))>>,
     Battery |->
         <<Ptr(2899), Nil, Ptr(0), Ptr(65535), Ptr(65536), Ptr(1), Ptr(-1), Ptr(3000)>>,
     TagID |-> <<Ptr(63), Nil, Ptr(0), Ptr(255), Ptr(252), Ptr(1)>>]

\* a Format3Data with the slot values v
Reading3(v, p, fld, j) ==
    LET I(f) == IF f = fld THEN j ELSE p
    IN  [Humidity       |-> Sample(v.Humidity, I(1)),
         Temperature    |-> Sample(v.Temperature3, I(2)),
         Pressure       |-> Sample(v.Pressure, I(3)),
         AccelerationX  |-> Sample(v.Acceleration, I(4)),
         AccelerationY  |-> Sample(v.Acceleration, I(5) + 5),
         AccelerationZ  |-> Sample(v.Acceleration, I(6) + 2),
         BatteryVoltage |-> Sample(v.Battery, I(7))]

\* a Format2Data with the slot values v
Reading2(v, p, fld, j) ==
    LET I(f) == IF f = fld THEN j ELSE p
    IN  [Humidity    |-> Sample(v.Humidity, I(1)),
         Temperature |-> Sample(v.Temperature, I(2)),
         Pressure    |-> Sample(v.Pressure, I(3))]

\* a Format4Data with the slot values v
Reading4(v, p, fld, j) ==
    LET I(f) == IF f = fld THEN j ELSE p
    IN  [Humidity    |-> Sample(v.Humidity, I(1)),
         Temperature |-> Sample(v.Temperature, I(2)),
         Pressure    |-> Sample(v.Pressure, I(3)),
         TagID       |-> Sample(v.TagID, I(4))]

\* a value in hand: bytes (format 0) or a pointer to a reading of a format
\* (a tuple <<kind, format, value>>)
Bytes(v) == <<"bytes", 0, v>>

Reading(format, v) == <<"reading", format, v>>

None == <<"none", 0, Nil>>

Kind(x) == x[1]

Format(x) == x[2]

Value(x) == x[3]

\* what a caller may hold at first: bytes, a reading of a format, or nil
Inputs ==
    {Bytes(v) : v \in AnyBytes \cup Frames}
    \cup {Reading(n, Nil) : n \in {2, 3, 4, 5}}
    \cup {Reading(2, Ptr(Reading2(Val234, p, f, j))) :
              p \in Profiles, f \in 1..3, j \in Places}
    \cup {Reading(3, Ptr(Reading3(Val234, p, f, j))) :
              p \in Profiles, f \in 1..7, j \in Places}
    \cup {Reading(4, Ptr(Reading4(Val234, p, f, j))) :
              p \in Profiles, f \in 1..4, j \in Places}
    \cup {Reading(5, Ptr(Reading5(Val5, p, f, j))) :
              p \in Profiles, f \in 1..11, j \in Places}

(***************************************************************************)
(* The state: a caller, on one build, holds an input and calls the         *)
(* package's functions, each on the input or on what the previous call     *)
(* returned.  log records every call with its argument and its result.     *)
(***************************************************************************)
VARIABLES build, input, log

vars == <<build, input, log>>

Init ==
    /\ build \in Builds
    /\ input \in Inputs
    /\ log = <<>>

\* what a call returned, as a value in hand ("none" after an error and after
\* the calls whose result is not the argument of another)
Returned(c) ==
    IF ~IsNil(c.ret.err) THEN None
    ELSE IF c.op \in {"Encode", "EncodeManufacturerData"} THEN Bytes(Deref(c.ret.val))
    ELSE IF c.op = "Decode" THEN Reading(c.format, c.ret.val)
    ELSE None

Cur == IF log = <<>> THEN input ELSE Returned(log[Len(log)])

Call(op, format, ret) ==
    /\ Len(log) < MaxCalls
    /\ log' = Append(log, [op |-> op, format |-> format, arg |-> Value(Cur), ret |-> ret])
    /\ UNCHANGED <<build, input>>

CallDetectFormat ==
    /\ Kind(Cur) = "bytes"
    /\ Call("DetectFormat", 0, DetectFormat(Value(Cur)))

CallDecode ==
    /\ Kind(Cur) = "bytes"
    /\ Call("DecodeAny", 0, Decode(build, Value(Cur)))

CallDecodeFormat2 ==
    /\ Kind(Cur) = "bytes"
    /\ Call("Decode", 2, DecodeFormat2(Value(Cur)))

CallDecodeFormat3 ==
    /\ Kind(Cur) = "bytes"
    /\ Call("Decode", 3, DecodeFormat3(build, Value(Cur)))

CallDecodeFormat4 ==
    /\ Kind(Cur) = "bytes"
    /\ Call("Decode", 4, DecodeFormat4(Value(Cur)))

CallDecodeFormat5 ==
    /\ Kind(Cur) = "bytes"
    /\ Call("Decode", 5, DecodeFormat5(Value(Cur)))

CallParseManufacturerData ==
    /\ Kind(Cur) = "bytes"
    /\ Call("Parse", 0, ParseManufacturerData(Value(Cur)))

CallEncodeFormat2 ==
    /\ Kind(Cur) = "reading" /\ Format(Cur) = 2
    /\ Call("Encode", 2, EncodeFormat2(build, Value(Cur)))

CallEncodeFormat3 ==
    /\ Kind(Cur) = "reading" /\ Format(Cur) = 3
    /\ Call("Encode", 3, EncodeFormat3(build, Value(Cur)))

CallEncodeFormat4 ==
    /\ Kind(Cur) = "reading" /\ Format(Cur) = 4
    /\ Call("Encode", 4, EncodeFormat4(build, Value(Cur)))

CallEncodeFormat5 ==
    /\ Kind(Cur) = "reading" /\ Format(Cur) = 5
    /\ Call("Encode", 5, EncodeFormat5(build, Value(Cur)))

CallEncodeFormat5ManufacturerData ==
    /\ Kind(Cur) = "reading" /\ Format(Cur) = 5
    /\ Call("EncodeManufacturerData", 5, EncodeFormat5ManufacturerData(build, Value(Cur)))

Next ==
    \/ CallDetectFormat
    \/ CallDecode
    \/ CallDecodeFormat2
    \/ CallDecodeFormat3
    \/ CallDecodeFormat4
    \/ CallDecodeFormat5
    \/ CallParseManufacturerData
    \/ CallEncodeFormat2
    \/ CallEncodeFormat3
    \/ CallEncodeFormat4
    \/ CallEncodeFormat5
    \/ CallEncodeFormat5ManufacturerData

Spec == Init /\ [][Next]_vars

(***************************************************************************)
(* Properties.  Each is stated over log: over every call made, its         *)
(* argument and its result, and over every chain of calls in which one     *)
(* call's result is the next call's argument.                              *)
(***************************************************************************)
Calls == 1..Len(log)

\* the call that has just returned (every call is the last one of the state
\* it returned in, so a statement about one call alone may range over Last)
Last == {i \in Calls : i = Len(log)}

\* the frame length of a format, as documented
FrameLength(format) ==
    CASE format = 2 -> 6 [] format = 3 -> 14 [] format = 4 -> 7 [] format = 5 -> 24

Succeeded(c) == IsNil(c.ret.err) /\ ~IsNil(c.ret.val)

Failed(c) == ~IsNil(c.ret.err) /\ IsNil(c.ret.val)

\* call i is DecodeFormatN and succeeded
IsDecoded(i, format) ==
    log[i].op = "Decode" /\ log[i].format = format /\ Succeeded(log[i])

\* call i is EncodeFormatN of a reading (not of nil)
IsEncoded(i, format) ==
    log[i].op = "Encode" /\ log[i].format = format /\ ~IsNil(log[i].arg)

\* call i + 1 is the call of op of the same format on the result of call i
Then(i, op) ==
    i < Len(log) /\ log[i + 1].op = op /\ log[i + 1].format = log[i].format

\* the big-endian 16-bit value at byte offset off of frame f
Raw16(f, off) == f[off + 1] * 256 + f[off + 2]

Signed16(u) == IF u >= 32768 THEN u - 65536 ELSE u

\* C1: DecodeFormatN returns an error and no reading iff the length is not
\* L_N or byte 0 is not N; on every other byte sequence it returns a reading
\* and no error.
C1_DecodeFailsIffLengthOrTag ==
    \A i \in Calls :
        log[i].op = "Decode" =>
            IF Len(log[i].arg) # FrameLength(log[i].format)
               \/ log[i].arg[1] # log[i].format
            THEN Failed(log[i])
            ELSE Succeeded(log[i])

\* a decoder was handed bytes of its own length under another format's tag
C1_Witness ==
    \E i \in Calls :
        /\ log[i].op = "Decode"
        /\ Len(log[i].arg) = FrameLength(log[i].format)
        /\ log[i].arg[1] # log[i].format
        /\ Failed(log[i])

\* C2: DetectFormat fails on the empty sequence and on a first byte outside
\* 2..5, and otherwise returns the first byte, whatever the length and the
\* other bytes.
C2_DetectFormatByFirstByte ==
    \A i \in Calls :
        log[i].op = "DetectFormat" =>
            IF Len(log[i].arg) = 0 THEN ~IsNil(log[i].ret.err)
            ELSE IF log[i].arg[1] \notin {2, 3, 4, 5} THEN ~IsNil(log[i].ret.err)
            ELSE IsNil(log[i].ret.err) /\ log[i].ret.val = log[i].arg[1]

\* DetectFormat accepted a sequence that no decoder accepts: a supported
\* first byte and a length that is no format's
C2_Witness ==
    \E i \in Calls :
        /\ log[i].op = "DetectFormat"
        /\ Len(log[i].arg) = 25
        /\ log[i].arg[1] = 4
        /\ IsNil(log[i].ret.err)
        /\ log[i].ret.val = 4

\* a slot as documented: absent for the sentinel, and v otherwise
Scaled(raw, sentinel, v) == IF raw = sentinel THEN Nil ELSE Ptr(v)

\* C3: DecodeFormat5 of a 24-byte frame of tag 5 gives, field by field, an
\* absent slot iff the raw sub-field is the sentinel, and otherwise the raw
\* value scaled as documented, read big-endian at the layout's offsets.
C3_DecodeFormat5Fields ==
    \A i \in Last :
        (/\ log[i].op = "Decode" /\ log[i].format = 5
         /\ Len(log[i].arg) = 24 /\ log[i].arg[1] = 5) =>
            LET f == log[i].arg
                r == Deref(log[i].ret.val)
                acc(off) == Scaled(Signed16(Raw16(f, off)), -32768,
                                   FDiv(FInt(Signed16(Raw16(f, off))), FInt(1000)))
            IN  /\ Succeeded(log[i])
                /\ r.Temperature = Scaled(Signed16(Raw16(f, 1)), -32768,
                                          FMul(FInt(Signed16(Raw16(f, 1))), F0_005))
                /\ r.Humidity = Scaled(Raw16(f, 3), 65535,
                                       FMul(FInt(Raw16(f, 3)), F0_0025))
                /\ r.Pressure = Scaled(Raw16(f, 5), 65535, Raw16(f, 5) + 50000)
                /\ r.AccelerationX = acc(7)
                /\ r.AccelerationY = acc(9)
                /\ r.AccelerationZ = acc(11)
                /\ r.BatteryVoltage =
                       Scaled(Raw16(f, 13) \div 32, 2047, Raw16(f, 13) \div 32 + 1600)
                /\ r.TxPower =
                       Scaled(Raw16(f, 13) % 32, 31, (Raw16(f, 13) % 32) * 2 - 40)
                /\ r.MovementCounter = Scaled(f[16], 255, f[16])
                /\ r.MeasurementSequence = Scaled(Raw16(f, 16), 65535, Raw16(f, 16))

\* DecodeFormat5 decoded a frame with the humidity sentinel beside a present
\* temperature, and the humidity slot came out absent
C3_Witness ==
    \E i \in Calls :
        /\ IsDecoded(i, 5)
        /\ Raw16(log[i].arg, 3) = 65535
        /\ Signed16(Raw16(log[i].arg, 1)) # -32768
        /\ IsNil(Deref(log[i].ret.val).Humidity)
        /\ ~IsNil(Deref(log[i].ret.val).Temperature)

\* the bytes of frame f at offsets off .. off + n - 1
BytesAt(f, off, n) == SubSeq(f, off + 1, off + n)

\* an absent slot of reading r was written as bytes want at off, and decoded
\* as absent where the frame was decoded again (slot d)
SentinelKept(i, slot, off, want, decodedSlot) ==
    IsNil(slot) =>
        /\ BytesAt(Deref(log[i].ret.val), off, Len(want)) = want
        /\ (Then(i, "Decode") /\ Succeeded(log[i + 1]) => IsNil(decodedSlot))

\* C4: encoding a reading with an absent slot writes the slot's sentinel in
\* the field's bytes, whatever the other slots are, and decoding the frame
\* gives the slot absent; for every format and every field with a sentinel.
C4_AbsentSlotIsSentinel ==
    \A i \in Calls :
        /\ IsEncoded(i, 5) =>
               LET r == Deref(log[i].arg)
                   f == Deref(log[i].ret.val)
                   d == IF Then(i, "Decode") /\ Succeeded(log[i + 1])
                        THEN Deref(log[i + 1].ret.val) ELSE r
               IN  /\ SentinelKept(i, r.Temperature, 1, <<128, 0>>, d.Temperature)
                   /\ SentinelKept(i, r.Humidity, 3, <<255, 255>>, d.Humidity)
                   /\ SentinelKept(i, r.Pressure, 5, <<255, 255>>, d.Pressure)
                   /\ SentinelKept(i, r.AccelerationX, 7, <<128, 0>>, d.AccelerationX)
                   /\ SentinelKept(i, r.AccelerationY, 9, <<128, 0>>, d.AccelerationY)
                   /\ SentinelKept(i, r.AccelerationZ, 11, <<128, 0>>, d.AccelerationZ)
                   /\ IsNil(r.BatteryVoltage) =>
                          Raw16(f, 13) \div 32 = 2047 /\ IsNil(d.BatteryVoltage)
                   /\ IsNil(r.TxPower) => Raw16(f, 13) % 32 = 31 /\ IsNil(d.TxPower)
                   /\ SentinelKept(i, r.MovementCounter, 15, <<255>>, d.MovementCounter)
                   /\ SentinelKept(i, r.MeasurementSequence, 16, <<255, 255>>,
                                   d.MeasurementSequence)
                   /\ SentinelKept(i, r.MACAddress, 18,
                                   <<255, 255, 255, 255, 255, 255>>, d.MACAddress)
        /\ \A n \in {2, 3, 4} :
               IsEncoded(i, n) =>
                   LET r == Deref(log[i].arg)
                       d == IF Then(i, "Decode") /\ Succeeded(log[i + 1])
                            THEN Deref(log[i + 1].ret.val) ELSE r
                   IN  /\ SentinelKept(i, r.Humidity, 1, <<0>>, d.Humidity)
                       /\ SentinelKept(i, r.Temperature, 2, <<0, 0>>, d.Temperature)
                       /\ SentinelKept(i, r.Pressure, 4, <<0, 0>>, d.Pressure)
                       /\ n = 3 => SentinelKept(i, r.BatteryVoltage, 12, <<0, 0>>,
                                                d.BatteryVoltage)
                       /\ n = 4 => SentinelKept(i, r.TagID, 6, <<0>>, d.TagID)

\* a Format-5 reading with the pressure absent and the temperature present
\* was encoded and the frame decoded again
C4_Witness ==
    \E i \in Calls :
        /\ IsEncoded(i, 5)
        /\ IsNil(Deref(log[i].arg).Pressure)
        /\ ~IsNil(Deref(log[i].arg).Temperature)
        /\ Then(i, "Decode")
        /\ Succeeded(log[i + 1])
        /\ IsNil(Deref(log[i + 1].ret.val).Pressure)
        /\ ~IsNil(Deref(log[i + 1].ret.val).Temperature)

\* C5: for every 24-byte frame f of tag 5, EncodeFormat5(DecodeFormat5(f))
\* returns exactly the bytes of f.
C5_DecodeEncodeIsIdentity ==
    \A i \in Calls :
        IsDecoded(i, 5) /\ Then(i, "Encode") =>
            /\ Succeeded(log[i + 1])
            /\ Deref(log[i + 1].ret.val) = log[i].arg

\* two float slots are both absent, or both present with equal values
SameFloat(p, q) ==
    /\ IsNil(p) = IsNil(q)
    /\ ~IsNil(p) => FEq(Deref(p), Deref(q))

\* two readings of a format have the same slots present, with the same values
SameReading(format, r, d) ==
    /\ SameFloat(r.Temperature, d.Temperature)
    /\ SameFloat(r.Humidity, d.Humidity)
    /\ r.Pressure = d.Pressure
    /\ format \in {3, 5} =>
           /\ SameFloat(r.AccelerationX, d.AccelerationX)
           /\ SameFloat(r.AccelerationY, d.AccelerationY)
           /\ SameFloat(r.AccelerationZ, d.AccelerationZ)
           /\ r.BatteryVoltage = d.BatteryVoltage
    /\ format = 4 => r.TagID = d.TagID
    /\ format = 5 =>
           /\ r.TxPower = d.TxPower
           /\ r.MovementCounter = d.MovementCounter
           /\ r.MeasurementSequence = d.MeasurementSequence
           /\ r.MACAddress = d.MACAddress

\* C6: for each format and every frame of its length and tag,
\* decode(encode(decode(frame))) equals decode(frame): the same slots are
\* present and every present slot has the same value.
C6_DecodeEncodeDecode ==
    \A i \in Calls :
        \A n \in {2, 3, 4, 5} :
            IsDecoded(i, n) /\ Then(i, "Encode") /\ Then(i + 1, "Decode") =>
                /\ Succeeded(log[i + 2])
                /\ SameReading(n, Deref(log[i].ret.val), Deref(log[i + 2].ret.val))

\* lo <= x <= hi for float64 values
FBetween(x, lo, hi) == ~FIsNaN(x) /\ ~FLt(x, lo) /\ ~FLt(hi, x)

InFloatRange(p, lo, hi) == IsNil(p) \/ FBetween(Deref(p), lo, hi)

InIntRange(p, lo, hi) == IsNil(p) \/ (lo <= Deref(p) /\ Deref(p) <= hi)

\* the documented ranges of the Format-5 fields
InRange5(r) ==
    /\ InFloatRange(r.Temperature, FNeg(Lit(163835, 1000)), Lit(163835, 1000))
    /\ InFloatRange(r.Humidity, FZero(0), Lit(163835, 1000))
    /\ InIntRange(r.Pressure, 50000, 115534)
    /\ InFloatRange(r.AccelerationX, FNeg(Lit(32767, 1000)), Lit(32767, 1000))
    /\ InFloatRange(r.AccelerationY, FNeg(Lit(32767, 1000)), Lit(32767, 1000))
    /\ InFloatRange(r.AccelerationZ, FNeg(Lit(32767, 1000)), Lit(32767, 1000))
    /\ InIntRange(r.BatteryVoltage, 1600, 3646)
    /\ InIntRange(r.TxPower, -40, 20)
    /\ InIntRange(r.MovementCounter, 0, 254)
    /\ InIntRange(r.MeasurementSequence, 0, 65534)
    /\ IsNil(r.MACAddress) \/ ~IsInvalid(Deref(r.MACAddress))

\* both absent, or both present and |p - q| < unit
Within(p, q, unit) ==
    /\ IsNil(p) = IsNil(q)
    /\ ~IsNil(p) => FLt(FAbs(FSub(Deref(q), Deref(p))), unit)

\* both absent, or both present and |p - q| < unit, for integers
WithinInt(p, q, unit) ==
    /\ IsNil(p) = IsNil(q)
    /\ ~IsNil(p) => (Deref(q) - Deref(p) < unit /\ Deref(p) - Deref(q) < unit)

\* C7: for a Format-5 reading r with every present slot in its documented
\* range, DecodeFormat5(EncodeFormat5(r)) has the slots of r present, every
\* float slot within one scale unit of r's, tx power within 2 dBm, and the
\* integer slots and the identifier equal.
C7_EncodeDecodeWithinUnit ==
    \A i \in Calls :
        IsEncoded(i, 5) /\ InRange5(Deref(log[i].arg)) /\ Then(i, "Decode") =>
            /\ Succeeded(log[i + 1])
            /\ LET r == Deref(log[i].arg)
                   d == Deref(log[i + 1].ret.val)
               IN  /\ Within(r.Temperature, d.Temperature, F0_005)
                   /\ Within(r.Humidity, d.Humidity, F0_0025)
                   /\ Within(r.AccelerationX, d.AccelerationX, Lit(1, 1000))
                   /\ Within(r.AccelerationY, d.AccelerationY, Lit(1, 1000))
                   /\ Within(r.AccelerationZ, d.AccelerationZ, Lit(1, 1000))
                   /\ WithinInt(r.TxPower, d.TxPower, 2)
                   /\ r.Pressure = d.Pressure
                   /\ r.BatteryVoltage = d.BatteryVoltage
                   /\ r.MovementCounter = d.MovementCounter
                   /\ r.MeasurementSequence = d.MeasurementSequence
                   /\ r.MACAddress = d.MACAddress

\* the readings of a DecodedData that are set
Populated(r) ==
    {n \in {2, 3, 4, 5} :
        ~IsNil(CASE n = 2 -> r.Format2 [] n = 3 -> r.Format3
                 [] n = 4 -> r.Format4 [] n = 5 -> r.Format5)}

\* what the decoder of the format in byte 0 gives for the bytes
DecoderOf(b, data) ==
    CASE data[1] = 2 -> DecodeFormat2(data)
      [] data[1] = 3 -> DecodeFormat3(b, data)
      [] data[1] = 4 -> DecodeFormat4(data)
      [] data[1] = 5 -> DecodeFormat5(data)

\* the reading of format n of a DecodedData
ReadingOf(r, n) ==
    CASE n = 2 -> r.Format2 [] n = 3 -> r.Format3
      [] n = 4 -> r.Format4 [] n = 5 -> r.Format5

\* C8: when Decode succeeds, result.Format is byte 0, exactly one reading is
\* populated, the one of that format, and it is what that format's decoder
\* returns for the same bytes; when Decode fails there is no result.
C8_DecodeResult ==
    \A i \in Last :
        log[i].op = "DecodeAny" =>
            IF IsNil(log[i].ret.err)
            THEN /\ ~IsNil(log[i].ret.val)
                 /\ LET r == Deref(log[i].ret.val)
                    IN  /\ r.Format = log[i].arg[1]
                        /\ Populated(r) = {r.Format}
                        /\ ReadingOf(r, r.Format) = DecoderOf(build, log[i].arg).val
            ELSE IsNil(log[i].ret.val)

\* Decode succeeded on a Format-3 frame
C8_Witness ==
    \E i \in Calls :
        /\ log[i].op = "DecodeAny"
        /\ Succeeded(log[i])
        /\ Deref(log[i].ret.val).Format = 3
        /\ ~IsNil(Deref(log[i].ret.val).Format3)
        /\ ~IsNil(Deref(Deref(log[i].ret.val).Format3).Temperature)

\* C9: Decode fails iff the bytes are empty, byte 0 is not in 2..5, or the
\* length is not the length of the format in byte 0; in the last case the
\* error is that decoder's length error, unchanged; and Decode never returns
\* a wrong-format-tag error.
C9_DecodeFailsIff ==
    \A i \in Last :
        log[i].op = "DecodeAny" =>
            LET data == log[i].arg
            IN  /\ ~IsNil(log[i].ret.err) <=>
                       \/ Len(data) = 0
                       \/ data[1] \notin {2, 3, 4, 5}
                       \/ Len(data) # FrameLength(data[1])
                /\ (Len(data) > 0 /\ data[1] \in {2, 3, 4, 5}
                    /\ Len(data) # FrameLength(data[1])) =>
                       /\ log[i].ret.err = DecoderOf(build, data).err
                       /\ Deref(log[i].ret.err).msg = "requires exactly n bytes"
                       /\ Deref(log[i].ret.err).format = data[1]
                       /\ Deref(log[i].ret.err).arg = Len(data)
                /\ ~IsNil(log[i].ret.err) =>
                       Deref(log[i].ret.err).msg # "not format n data"

\* Decode was handed bytes with the tag of Format 3 and the length of
\* Format 5, and returned Format 3's length error
C9_Witness ==
    \E i \in Calls :
        /\ log[i].op = "DecodeAny"
        /\ Len(log[i].arg) = 24
        /\ log[i].arg[1] = 3
        /\ Failed(log[i])
        /\ Deref(log[i].ret.err) = ErrLength(3, 24)

\* C10: EncodeFormatN returns an error and no bytes iff the reading is nil;
\* for every other reading, whatever its slots hold, it returns L_N bytes
\* with byte 0 = N, and DecodeFormatN of them does not fail.
C10_EncodeFailsIffNil ==
    \A i \in Calls :
        log[i].op = "Encode" =>
            IF IsNil(log[i].arg) THEN Failed(log[i])
            ELSE /\ Succeeded(log[i])
                 /\ Len(Deref(log[i].ret.val)) = FrameLength(log[i].format)
                 /\ Deref(log[i].ret.val)[1] = log[i].format
                 /\ Then(i, "Decode") => Succeeded(log[i + 1])

\* a Format-4 reading holding a NaN was encoded and the frame decoded
C10_Witness ==
    \E i \in Calls :
        /\ IsEncoded(i, 4)
        /\ ~IsNil(Deref(log[i].arg).Temperature)
        /\ FIsNaN(Deref(Deref(log[i].arg).Temperature))
        /\ Then(i, "Decode")
        /\ Succeeded(log[i + 1])

\* C11: EncodeFormat5ManufacturerData of a reading returns 26 bytes: 0x99,
\* 0x04, then the 24 bytes EncodeFormat5 returns for the reading, so that
\* DecodeFormat5 of the bytes behind the first two gives what it gives for
\* EncodeFormat5's bytes; of nil it returns an error.
C11_ManufacturerEnvelope ==
    \A i \in Last :
        log[i].op = "EncodeManufacturerData" =>
            IF IsNil(log[i].arg) THEN Failed(log[i])
            ELSE /\ Succeeded(log[i])
                 /\ LET f == Deref(log[i].ret.val)
                        payload == EncodeFormat5(build, log[i].arg)
                    IN  /\ Len(f) = 26
                        /\ f[1] = 153 /\ f[2] = 4
                        /\ SubSeq(f, 3, Len(f)) = Deref(payload.val)
                        /\ Len(SubSeq(f, 3, Len(f))) = 24
                        /\ DecodeFormat5(SubSeq(f, 3, Len(f)))
                               = DecodeFormat5(Deref(payload.val))
                        /\ IsNil(DecodeFormat5(SubSeq(f, 3, Len(f))).err)

\* a reading with a present temperature was put in the envelope
C11_Witness ==
    \E i \in Calls :
        /\ log[i].op = "EncodeManufacturerData"
        /\ ~IsNil(log[i].arg)
        /\ ~IsNil(Deref(log[i].arg).Temperature)
        /\ Succeeded(log[i])
        /\ Len(Deref(log[i].ret.val)) = 26
        /\ Deref(log[i].ret.val)[3] = 5

\* call i is DecodeFormatN of a frame of the format's length and tag
IsFrameDecode(i, format) ==
    /\ log[i].op = "Decode" /\ log[i].format = format
    /\ Len(log[i].arg) = FrameLength(format) /\ log[i].arg[1] = format

\* C12: DecodeFormat3 of a 14-byte frame of tag 3 returns the three
\* accelerations present, each the signed big-endian raw value of bytes 6-7,
\* 8-9, 10-11 divided by 1000, for every raw value: 0 and -32768 too.
C12_Format3AccelerationAlwaysPresent ==
    \A i \in Last :
        IsFrameDecode(i, 3) =>
            /\ Succeeded(log[i])
            /\ LET f == log[i].arg
                   r == Deref(log[i].ret.val)
                   acc(off) == Ptr(FDiv(FInt(Signed16(Raw16(f, off))), FInt(1000)))
               IN  /\ r.AccelerationX = acc(6)
                   /\ r.AccelerationY = acc(8)
                   /\ r.AccelerationZ = acc(10)

\* DecodeFormat3 decoded a frame with raw acceleration 0x8000 on one axis
\* and 0 on another, to -32.768 and 0
C12_Witness ==
    \E i \in Calls :
        /\ IsFrameDecode(i, 3)
        /\ Succeeded(log[i])
        /\ Raw16(log[i].arg, 6) = 32768
        /\ Raw16(log[i].arg, 8) = 0
        /\ Deref(log[i].ret.val).AccelerationX = Ptr(FNeg(Lit(32768, 1000)))
        /\ Deref(log[i].ret.val).AccelerationY = Ptr(FZero(0))

\* the float64 values of whole + fraction * 0.01 with the sign of the whole
\* part: the product rounded before the sum, or the sum rounded once
SignMagnitude(negative, whole, fraction) ==
    LET twice == FAdd(FMul(FInt(fraction), F0_01), FInt(whole))
        once  == FMulAdd(FInt(fraction), F0_01, FInt(whole))
    IN  IF negative THEN {Ptr(FNeg(twice)), Ptr(FNeg(once))}
        ELSE {Ptr(twice), Ptr(once)}

\* C13: DecodeFormat3 of a 14-byte frame of tag 3 gives humidity byte1 * 0.5
\* (absent iff byte 1 = 0); temperature absent iff bytes 2 and 3 are 0, and
\* otherwise (byte2 & 0x7F) + byte3 * 0.01, negated iff bit 0x80 of byte 2 is
\* set; pressure the raw of bytes 4-5 plus 50000 (absent iff 0); battery the
\* raw of bytes 12-13 (absent iff 0).
C13_DecodeFormat3Fields ==
    \A i \in Last :
        IsFrameDecode(i, 3) =>
            /\ Succeeded(log[i])
            /\ LET f == log[i].arg
                   r == Deref(log[i].ret.val)
               IN  /\ r.Humidity = Scaled(f[2], 0, FMul(FInt(f[2]), F0_5))
                   /\ IF f[3] = 0 /\ f[4] = 0 THEN IsNil(r.Temperature)
                      ELSE r.Temperature \in SignMagnitude(f[3] >= 128, f[3] % 128, f[4])
                   /\ r.Pressure = Scaled(Raw16(f, 4), 0, Raw16(f, 4) + 50000)
                   /\ r.BatteryVoltage = Scaled(Raw16(f, 12), 0, Raw16(f, 12))

\* DecodeFormat3 decoded a frame with the sign bit set and a fraction, to a
\* temperature below the negated whole part
C13_Witness ==
    \E i \in Calls :
        /\ IsFrameDecode(i, 3)
        /\ Succeeded(log[i])
        /\ log[i].arg[3] = 129 /\ log[i].arg[4] = 99
        /\ ~IsNil(Deref(log[i].ret.val).Temperature)
        /\ FLt(Deref(Deref(log[i].ret.val).Temperature), FInt(-1))

\* C14: for every 14-byte frame f of tag 3, EncodeFormat3(DecodeFormat3(f))
\* returns exactly the bytes of f.
C14_Format3DecodeEncodeIsIdentity ==
    \A i \in Calls :
        IsFrameDecode(i, 3) /\ Then(i, "Encode") =>
            /\ Succeeded(log[i + 1])
            /\ Deref(log[i + 1].ret.val) = log[i].arg

\* a present temperature T with 1 <= |T| < 128
IsWholeRange(p) ==
    /\ ~IsNil(p)
    /\ ~FIsNaN(Deref(p))
    /\ ~FLt(FAbs(Deref(p)), FInt(1))
    /\ FLt(FAbs(Deref(p)), FInt(128))

\* C15: for a present temperature T with 1 <= |T| < 128, EncodeFormat2 and
\* EncodeFormat4 write byte 2 = (0x80 if T < 0) | trunc(|T|) and byte 3 = 0:
\* the fraction is dropped, and decoding the frame gives trunc(T).
C15_WholeDegreesTruncate ==
    \A i \in Calls :
        \A n \in {2, 4} :
            IsEncoded(i, n) /\ IsWholeRange(Deref(log[i].arg).Temperature) =>
                LET T == Deref(Deref(log[i].arg).Temperature)
                    f == Deref(log[i].ret.val)
                    whole == FTrunc(FAbs(T))
                IN  /\ Succeeded(log[i])
                    /\ f[3] = (IF FLt(T, FZero(0)) THEN 128 ELSE 0) + whole
                    /\ f[4] = 0
                    /\ Then(i, "Decode") =>
                           /\ Succeeded(log[i + 1])
                           /\ Deref(log[i + 1].ret.val).Temperature
                                  = Ptr(FInt(IF FLt(T, FZero(0)) THEN -whole ELSE whole))

\* -18.9 was encoded by EncodeFormat4 as 0x92 and decoded as -18
C15_Witness ==
    \E i \in Calls :
        /\ IsEncoded(i, 4)
        /\ Deref(log[i].arg).Temperature = Ptr(FNeg(Lit(189, 10)))
        /\ Deref(log[i].ret.val)[3] = 146
        /\ Then(i, "Decode")
        /\ Deref(log[i + 1].ret.val).Temperature = Ptr(FInt(-18))

\* C16: DecodeFormat2 and DecodeFormat4 of a frame of their length and tag
\* give humidity byte1 * 0.5 (absent iff byte 1 = 0), temperature the whole
\* degrees of byte 2 in sign and magnitude, whatever byte 3 is (absent iff
\* byte 2 = 0), pressure the raw of bytes 4-5 plus 50000 (absent iff 0), and
\* for Format 4 TagID absent iff byte 6 = 0; DecodeFormat4 gives the
\* humidity, temperature and pressure DecodeFormat2 gives for the first six
\* bytes under tag 2.
C16_DecodeFormat2And4Fields ==
    \A i \in Last :
        \A n \in {2, 4} :
            IsFrameDecode(i, n) =>
                /\ Succeeded(log[i])
                /\ LET f == log[i].arg
                       r == Deref(log[i].ret.val)
                       as2 == DecodeFormat2(<<2>> \o SubSeq(f, 2, 6))
                   IN  /\ r.Humidity = Scaled(f[2], 0, FMul(FInt(f[2]), F0_5))
                       /\ r.Temperature =
                              Scaled(f[3], 0, IF f[3] >= 128 THEN FNeg(FInt(f[3] - 128))
                                              ELSE FInt(f[3]))
                       /\ r.Pressure = Scaled(Raw16(f, 4), 0, Raw16(f, 4) + 50000)
                       /\ n = 4 =>
                              /\ r.TagID = Scaled(f[7], 0, f[7])
                              /\ IsNil(as2.err)
                              /\ Deref(as2.val).Humidity = r.Humidity
                              /\ Deref(as2.val).Temperature = r.Temperature
                              /\ Deref(as2.val).Pressure = r.Pressure

\* DecodeFormat4 decoded a frame with byte 2 = 0 and byte 3 = 1 to an absent
\* temperature beside a present TagID
C16_Witness ==
    \E i \in Calls :
        /\ IsFrameDecode(i, 4)
        /\ Succeeded(log[i])
        /\ log[i].arg[3] = 0 /\ log[i].arg[4] = 1
        /\ log[i].arg[7] # 0
        /\ IsNil(Deref(log[i].ret.val).Temperature)
        /\ ~IsNil(Deref(log[i].ret.val).TagID)

\* C17: DecodeFormat5 leaves the MACAddress slot absent exactly when bytes
\* 18..23 are all 0xFF, which is exactly when IsInvalid is true and
\* MACAddressPtr returns nil; with any of the six bytes different from 0xFF
\* the slot holds the six bytes in frame order.
C17_MACAbsentIffAllFF ==
    \A i \in Last :
        IsFrameDecode(i, 5) =>
            /\ Succeeded(log[i])
            /\ LET f == log[i].arg
                   r == Deref(log[i].ret.val)
                   allFF == \A k \in 18..23 : BytesAt(f, k, 1) = <<255>>
               IN  /\ IsNil(r.MACAddress) <=> allFF
                   /\ IsInvalid(BytesAt(f, 18, 6)) <=> allFF
                   /\ IsNil(MACAddressPtr(BytesAt(f, 18, 6))) <=> allFF
                   /\ ~allFF =>
                          /\ r.MACAddress = Ptr(BytesAt(f, 18, 6))
                          /\ MACAddressPtr(BytesAt(f, 18, 6)) = r.MACAddress

\* DecodeFormat5 decoded a frame whose bytes 18..22 are 0xFF and whose byte
\* 23 is not, to a present MACAddress
C17_Witness ==
    \E i \in Calls :
        /\ IsFrameDecode(i, 5)
        /\ Succeeded(log[i])
        /\ BytesAt(log[i].arg, 18, 5) = <<255, 255, 255, 255, 255>>
        /\ BytesAt(log[i].arg, 23, 1) # <<255>>
        /\ ~IsNil(Deref(log[i].ret.val).MACAddress)

\* C18: in the frame EncodeFormat5 returns, the high 11 bits of bytes 13-14
\* are 0x7FF for an absent BatteryVoltage and (battery - 1600) & 0x7FF
\* otherwise, whatever TxPower is, and the low 5 bits are 0x1F for an absent
\* TxPower and ((tx + 40) / 2) & 0x1F otherwise, whatever BatteryVoltage is;
\* with one of the two present and in range (battery 1600..3646, tx -40..20
\* and even) and the other absent, DecodeFormat5 of the frame returns the
\* present one unchanged and the other absent.
C18_PowerInfoIndependent ==
    \A i \in Calls :
        IsEncoded(i, 5) =>
            /\ Succeeded(log[i])
            /\ LET r == Deref(log[i].arg)
                   raw == Raw16(Deref(log[i].ret.val), 13)
                   oneOnly ==
                       \/ /\ IsNil(r.TxPower) /\ ~IsNil(r.BatteryVoltage)
                          /\ InIntRange(r.BatteryVoltage, 1600, 3646)
                       \/ /\ IsNil(r.BatteryVoltage) /\ ~IsNil(r.TxPower)
                          /\ InIntRange(r.TxPower, -40, 20)
                          /\ Deref(r.TxPower) % 2 = 0
               IN  /\ raw \div 32 =
                          IF IsNil(r.BatteryVoltage) THEN 2047
                          ELSE (Deref(r.BatteryVoltage) - 1600) % 2048
                   /\ raw % 32 =
                          IF IsNil(r.TxPower) THEN 31
                          ELSE QuoT(Deref(r.TxPower) + 40, 2) % 32
                   /\ oneOnly /\ Then(i, "Decode") =>
                          /\ Succeeded(log[i + 1])
                          /\ Deref(log[i + 1].ret.val).BatteryVoltage = r.BatteryVoltage
                          /\ Deref(log[i + 1].ret.val).TxPower = r.TxPower

\* EncodeFormat5 of a reading with TxPower 20 and no BatteryVoltage wrote
\* 0x7FF above raw 30, and DecodeFormat5 of the frame returned TxPower 20 and
\* no BatteryVoltage
C18_Witness ==
    \E i \in Calls :
        /\ IsEncoded(i, 5) /\ Then(i, "Decode") /\ Succeeded(log[i + 1])
        /\ IsNil(Deref(log[i].arg).BatteryVoltage)
        /\ Deref(log[i].arg).TxPower = Ptr(20)
        /\ Raw16(Deref(log[i].ret.val), 13) = 2047 * 32 + 30
        /\ Deref(log[i + 1].ret.val).TxPower = Ptr(20)
        /\ IsNil(Deref(log[i + 1].ret.val).BatteryVoltage)

\* C19: ParseManufacturerData succeeds exactly on data of 24 bytes whose
\* first byte is 5; it fails on empty data, on any other first byte (the
\* frames of formats 2, 3 and 4 that Decode accepts included) and on first
\* byte 5 with any other length.
C19_ParseSucceedsIffFormat5 ==
    \A i \in Last :
        log[i].op = "Parse" =>
            LET f == log[i].arg
            IN  /\ Succeeded(log[i]) <=> (Len(f) = 24 /\ f[1] = 5)
                /\ Succeeded(log[i]) \/ Failed(log[i])
                /\ f = <<>> => log[i].ret = Fail(ErrParseEmpty)
                /\ f # <<>> /\ f[1] # 5 => log[i].ret = Fail(ErrParseUnsupported)
                /\ f # <<>> /\ f[1] \in {2, 3, 4} /\ Len(f) = FrameLength(f[1]) =>
                       IsNil(Decode(build, f).err)
                /\ f # <<>> /\ f[1] = 5 /\ Len(f) # 24 =>
                       log[i].ret = Fail(ErrParseLength)

\* ParseManufacturerData refused a 14-byte frame of tag 3
C19_Witness ==
    \E i \in Calls :
        /\ log[i].op = "Parse"
        /\ Len(log[i].arg) = 14 /\ log[i].arg[1] = 3
        /\ Failed(log[i])

\* C22: every DecodeFormatN tests the length before byte 0: on an input
\* whose length is not L_N the error is the length error naming that length,
\* whatever byte 0 is and also for the empty input, and the tag error is
\* returned only for an input of exactly L_N bytes.
C22_LengthCheckedBeforeTag ==
    \A i \in Last :
        log[i].op = "Decode" =>
            LET f == log[i].arg
                n == log[i].format
            IN  /\ Len(f) # FrameLength(n) =>
                       log[i].ret = Fail(ErrLength(n, Len(f)))
                /\ (~IsNil(log[i].ret.err)
                        /\ Deref(log[i].ret.err).msg = ErrTag(n, 0).msg) =>
                       /\ Len(f) = FrameLength(n)
                       /\ f[1] # n
                       /\ log[i].ret = Fail(ErrTag(n, f[1]))

\* a decoder was handed bytes that have neither its length nor its tag and
\* returned the length error
C22_Witness ==
    \E i \in Calls :
        /\ log[i].op = "Decode"
        /\ log[i].arg # <<>>
        /\ Len(log[i].arg) # FrameLength(log[i].format)
        /\ log[i].arg[1] # log[i].format
        /\ log[i].ret = Fail(ErrLength(log[i].format, Len(log[i].arg)))

\* the raw value written for the present slot p, in range up to max, is v/s
\* cut toward zero: what raw decodes to (back) does not exceed v in
\* magnitude, what the next raw away from zero decodes to (next) is not
\* below v in magnitude, raw has the sign of v or is 0, and a negative v
\* above minus one step gives raw 0
Truncated(p, max, raw, back, next, step) ==
    (~IsNil(p) /\ FBetween(Deref(p), FNeg(max), max)) =>
        /\ ~FLt(FAbs(Deref(p)), FAbs(back))
        /\ ~FLt(FAbs(next), FAbs(Deref(p)))
        /\ (raw < 0 => Deref(p).sign = 1) /\ (raw > 0 => Deref(p).sign = 0)
        /\ (FLt(Deref(p), FZero(0)) /\ FLt(FNeg(step), Deref(p))) => raw = 0

Magnitude(raw) == IF raw < 0 THEN -raw ELSE raw

TruncatedTemperature(p, raw) ==
    Truncated(p, Lit(163835, 1000), raw, FMul(FInt(raw), F0_005),
              FMul(FInt(Magnitude(raw) + 1), F0_005), F0_005)

TruncatedHumidity(p, raw) ==
    Truncated(p, Lit(163835, 1000), raw, FMul(FInt(raw), F0_0025),
              FMul(FInt(raw + 1), F0_0025), F0_0025)

TruncatedAcceleration(p, raw) ==
    Truncated(p, Lit(32767, 1000), raw, FDiv(FInt(raw), F1000),
              FDiv(FInt(Magnitude(raw) + 1), F1000), Lit(1, 1000))

C24_Format3NegativeBelowOneDegree ==
    \A i \in Calls :
        (/\ IsEncoded(i, 3)
         /\ ~IsNil(Deref(log[i].arg).Temperature)
         /\ FBetween(Deref(Deref(log[i].arg).Temperature), FInt(-1), FNeg(F0_005))
         /\ FLt(FInt(-1), Deref(Deref(log[i].arg).Temperature))) =>
            /\ Succeeded(log[i])
            /\ LET t == Deref(Deref(log[i].arg).Temperature)
                   f == Deref(log[i].ret.val)
               IN  /\ f[3] = 128
                   /\ f[4] = FTrunc(FRound(FMul(FAbs(t), F100)))
                   /\ f[4] >= 1
                   /\ Then(i, "Decode") =>
                          /\ Succeeded(log[i + 1])
                          /\ LET d == Deref(log[i + 1].ret.val).Temperature
                             IN  /\ ~IsNil(d)
                                 /\ FLt(Deref(d), FZero(0))
                                 /\ FLt(FAbs(FSub(Deref(d), t)), F0_01)

\* EncodeFormat3 wrote 80 01 for -0.005 C and DecodeFormat3 read the frame
\* as a present temperature below zero
C24_Witness ==
    \E i \in Calls :
        /\ IsEncoded(i, 3) /\ Then(i, "Decode") /\ Succeeded(log[i + 1])
        /\ Deref(log[i].arg).Temperature = Ptr(FNeg(Lit(5, 1000)))
        /\ SubSeq(Deref(log[i].ret.val), 3, 4) = <<128, 1>>
        /\ ~IsNil(Deref(log[i + 1].ret.val).Temperature)
        /\ FLt(Deref(Deref(log[i + 1].ret.val).Temperature), FZero(0))

\* C25: for every present temperature T that is not NaN, bit 0x80 of byte 2
\* of the frame EncodeFormat3 returns is set iff T is negative, also for
\* magnitudes of 128 and above.
C25_Format3SignBitIffNegative ==
    \A i \in Calls :
        (/\ IsEncoded(i, 3)
         /\ ~IsNil(Deref(log[i].arg).Temperature)
         /\ ~FIsNaN(Deref(Deref(log[i].arg).Temperature))) =>
            /\ Succeeded(log[i])
            /\ Deref(log[i].ret.val)[3] >= 128
                   <=> FLt(Deref(Deref(log[i].arg).Temperature), FZero(0))

\* C26: for every present temperature T with |T| <= 127.99, byte 3 of the
\* frame EncodeFormat3 returns is in 0..99 and the low 7 bits of byte 2 are
\* the whole degrees trunc(|T|).
C26_Format3FractionBelow100 ==
    \A i \in Calls :
        (/\ IsEncoded(i, 3)
         /\ ~IsNil(Deref(log[i].arg).Temperature)
         /\ FBetween(Deref(Deref(log[i].arg).Temperature),
                     FNeg(Lit(12799, 100)), Lit(12799, 100))) =>
            /\ Succeeded(log[i])
            /\ Deref(log[i].ret.val)[4] \in 0..99
            /\ Deref(log[i].ret.val)[3] % 128 =
                   FTrunc(FAbs(Deref(Deref(log[i].arg).Temperature)))

\* C27: a present TagID carries only the six most significant bits of byte
\* 6: a Format-4 frame with one of those bits set decodes to the TagID of the
\* frame that differs from it only in having the two low bits of byte 6
\* clear.
C27_TagIDSixBits ==
    \A i \in Calls :
        (IsFrameDecode(i, 4) /\ log[i].arg[7] \div 4 # 0) =>
            /\ Succeeded(log[i])
            /\ LET f == log[i].arg
                   g == [f EXCEPT ![7] = (f[7] \div 4) * 4]
               IN  /\ IsNil(DecodeFormat4(g).err)
                   /\ Deref(DecodeFormat4(g).val).TagID
                          = Deref(log[i].ret.val).TagID

\* a float slot is present and holds NaN
IsNaNSlot(p) == ~IsNil(p) /\ FIsNaN(Deref(p))

\* the slot, or nil where it holds NaN
NoNaN(p) == IF IsNaNSlot(p) THEN Nil ELSE p

\* the reading r of a format with nil in place of each NaN
WithoutNaN(format, r) ==
    LET t == [r EXCEPT !.Temperature = NoNaN(@), !.Humidity = NoNaN(@)]
    IN  IF format \in {2, 4} THEN t
        ELSE [t EXCEPT !.AccelerationX = NoNaN(@), !.AccelerationY = NoNaN(@),
                       !.AccelerationZ = NoNaN(@)]

EncoderOf(b, format, data) ==
    CASE format = 2 -> EncodeFormat2(b, data)
      [] format = 3 -> EncodeFormat3(b, data)
      [] format = 4 -> EncodeFormat4(b, data)
      [] format = 5 -> EncodeFormat5(b, data)

\* the bytes at off are want where the slot holds NaN
NaNWritten(f, p, off, want) == IsNaNSlot(p) => BytesAt(f, off, Len(want)) = want

\* C28: every encoder treats a present float slot holding NaN as an absent
\* one: it returns no error, writes the bytes it writes for nil (Format 5:
\* 80 00 for temperature and accelerations, FF FF for humidity; Formats 2, 3
\* and 4: zero bytes for humidity, temperature and the accelerations of
\* Format 3), and the rest of the frame is what it is with nil in that slot.
C28_NaNEncodedAsAbsent ==
    \A i \in Last :
        \A n \in {2, 3, 4, 5} :
            IsEncoded(i, n) =>
                /\ Succeeded(log[i])
                /\ LET r == Deref(log[i].arg)
                       f == Deref(log[i].ret.val)
                   IN  /\ log[i].ret = EncoderOf(build, n, Ptr(WithoutNaN(n, r)))
                       /\ n = 5 =>
                              /\ NaNWritten(f, r.Temperature, 1, <<128, 0>>)
                              /\ NaNWritten(f, r.Humidity, 3, <<255, 255>>)
                              /\ NaNWritten(f, r.AccelerationX, 7, <<128, 0>>)
                              /\ NaNWritten(f, r.AccelerationY, 9, <<128, 0>>)
                              /\ NaNWritten(f, r.AccelerationZ, 11, <<128, 0>>)
                       /\ n # 5 =>
                              /\ NaNWritten(f, r.Humidity, 1, <<0>>)
                              /\ NaNWritten(f, r.Temperature, 2, <<0, 0>>)
                       /\ n = 3 =>
                              /\ NaNWritten(f, r.AccelerationX, 6, <<0, 0>>)
                              /\ NaNWritten(f, r.AccelerationY, 8, <<0, 0>>)
                              /\ NaNWritten(f, r.AccelerationZ, 10, <<0, 0>>)

\* EncodeFormat3 wrote 00 00 for an AccelerationZ of NaN beside a present
\* AccelerationY, and returned no error
C28_Witness ==
    \E i \in Calls :
        /\ IsEncoded(i, 3) /\ Succeeded(log[i])
        /\ IsNaNSlot(Deref(log[i].arg).AccelerationZ)
        /\ ~IsNil(Deref(log[i].arg).AccelerationY)
        /\ ~IsNaNSlot(Deref(log[i].arg).AccelerationY)
        /\ BytesAt(Deref(log[i].ret.val), 10, 2) = <<0, 0>>
        /\ BytesAt(Deref(log[i].ret.val), 8, 2) # <<0, 0>>

\* C29: on every 24-byte frame with byte 0 = 5 ParseManufacturerData and
\* DecodeFormat5 both succeed and agree on the presence and the value of all
\* eleven slots; the TxPower computed in unsigned 16-bit arithmetic and
\* narrowed to int8 is raw * 2 - 40, and battery raw + 1600 stays below 2^16.
C29_ParseAgreesWithDecodeFormat5 ==
    \A i \in Last :
        (log[i].op = "Parse" /\ Len(log[i].arg) = 24 /\ log[i].arg[1] = 5) =>
            /\ Succeeded(log[i])
            /\ IsNil(DecodeFormat5(log[i].arg).err)
            /\ Deref(log[i].ret.val) = Deref(DecodeFormat5(log[i].arg).val)
            /\ LET m == Deref(log[i].ret.val)
                   powerInfo == Raw16(log[i].arg, 13)
               IN  /\ powerInfo % 32 # 31 =>
                          m.TxPower = Ptr((powerInfo % 32) * 2 - 40)
                   /\ powerInfo \div 32 # 2047 =>
                          /\ m.BatteryVoltage = Ptr((powerInfo \div 32) + 1600)
                          /\ Deref(m.BatteryVoltage) < 65536

\* ParseManufacturerData read TX power raw 0 as -40 dBm
C29_Witness ==
    \E i \in Calls :
        /\ log[i].op = "Parse" /\ Succeeded(log[i])
        /\ Raw16(log[i].arg, 13) % 32 = 0
        /\ Deref(log[i].ret.val).TxPower = Ptr(-40)

\* the present float slot p, within lo..hi, comes back absent iff it lies in
\* [0, below)
FloatLostIff(p, d, lo, hi, below) ==
    (~IsNil(p) /\ FBetween(Deref(p), lo, hi)) =>
        (IsNil(d) <=> (~FLt(Deref(p), FZero(0)) /\ FLt(Deref(p), below)))

\* the present integer slot p, within lo..hi, comes back absent iff it is zero
IntLostIff(p, d, lo, hi, zero) ==
    (~IsNil(p) /\ lo <= Deref(p) /\ Deref(p) <= hi) => (IsNil(d) <=> Deref(p) = zero)

\* C30: in Formats 2, 3 and 4, DecodeFormatN(EncodeFormatN(r)) returns no
\* error, and a present in-range slot of r comes back absent exactly when
\* its raw value is the zero sentinel: humidity below 0.5 %, pressure 50000
\* Pa, Format-3 battery 0 mV, Format-4 TagID 0, Format-3 temperature in
\* [0, 0.005) C, Format-2/4 temperature in [0, 1) C; an absent Format-3
\* acceleration comes back as a present 0.0 G.
C30_LostExactlyAtZeroSentinel ==
    \A i \in Calls :
        \A n \in {2, 3, 4} :
            (IsEncoded(i, n) /\ Then(i, "Decode")) =>
                /\ Succeeded(log[i])
                /\ Succeeded(log[i + 1])
                /\ LET r == Deref(log[i].arg)
                       d == Deref(log[i + 1].ret.val)
                   IN  /\ FloatLostIff(r.Humidity, d.Humidity, FZero(0),
                                       Lit(1275, 10), F0_5)
                       /\ IntLostIff(r.Pressure, d.Pressure, 50000, 115535, 50000)
                       /\ n = 3 =>
                              /\ FloatLostIff(r.Temperature, d.Temperature,
                                              FNeg(Lit(12799, 100)), Lit(12799, 100),
                                              F0_005)
                              /\ IntLostIff(r.BatteryVoltage, d.BatteryVoltage,
                                            0, 65535, 0)
                              /\ IsNil(r.AccelerationX) =>
                                     d.AccelerationX = Ptr(FZero(0))
                              /\ IsNil(r.AccelerationY) =>
                                     d.AccelerationY = Ptr(FZero(0))
                              /\ IsNil(r.AccelerationZ) =>
                                     d.AccelerationZ = Ptr(FZero(0))
                       /\ n # 3 =>
                              FloatLostIff(r.Temperature, d.Temperature,
                                           FInt(-127), FInt(127), FInt(1))
                       /\ n = 4 => IntLostIff(r.TagID, d.TagID, 0, 255, 0)

\* EncodeFormat4 then DecodeFormat4 returned no humidity for 0.4 %, and no
\* error
C30_Witness ==
    \E i \in Calls :
        /\ IsEncoded(i, 4) /\ Then(i, "Decode")
        /\ Succeeded(log[i]) /\ Succeeded(log[i + 1])
        /\ Deref(log[i].arg).Humidity = Ptr(Lit(4, 10))
        /\ IsNil(Deref(log[i + 1].ret.val).Humidity)

(***************************************************************************)
(* Storage.  A decoder is handed the caller's byte slice and an encoder   *)
(* the caller's reading; what they return points into storage.  A cell is  *)
(* the storage behind one pointer or buffer: a variable or buffer the       *)
(* callee allocated itself, or a part of the argument.  Here the caller     *)
(* makes one call and then writes into the argument it still holds.         *)
(***************************************************************************)
\* a local variable whose address is taken (movementRaw := data[15];
\* &movementRaw), an array filled by copy, a buffer from make
Fresh(v) == [in |-> "own", val |-> v]

\* the part data[off : off+n] of the argument
Part(off, n) == [in |-> "arg", off |-> off, len |-> n]

\* what a cell holds while the argument holds mem
Load(cell, mem) ==
    IF cell.in = "own" THEN cell.val
    ELSE SubSeq(mem, cell.off + 1, cell.off + cell.len)

\* ReadingCells with the MACAddress pointing at data[18:24] itself
ReadingCellsMACInPlace(r) ==
    [k \in DOMAIN r |->
        IF IsNil(r[k]) THEN Nil
        ELSE IF k = "MACAddress" THEN Ptr(Part(18, 6))
        ELSE Ptr(Fresh(Deref(r[k])))]

\* the cells behind the slots of a decoded reading: each present slot points
\* to a local of the decoder
ReadingCells(r) ==
    [k \in DOMAIN r |-> IF IsNil(r[k]) THEN Nil ELSE Ptr(Fresh(Deref(r[k])))]

\* the reading seen through its cells while the argument holds mem
LoadReading(cells, mem) ==
    [k \in DOMAIN cells |->
        IF IsNil(cells[k]) THEN Nil ELSE Ptr(Load(Deref(cells[k]), mem))]

\* a frame and a reading of each format for each profile
StorageInputs ==
    {Bytes(Frame5(p, 1, p)) : p \in Profiles}
    \cup {Bytes(Frame234(n, p, 1, p)) : n \in {2, 3, 4}, p \in Profiles}
    \cup {Reading(2, Ptr(Reading2(Val234, p, 1, p))) : p \in Profiles}
    \cup {Reading(3, Ptr(Reading3(Val234, p, 1, p))) : p \in Profiles}
    \cup {Reading(4, Ptr(Reading4(Val234, p, 1, p))) : p \in Profiles}
    \cup {Reading(5, Ptr(Reading5(Val5, p, 1, p))) : p \in Profiles}

InitStorage ==
    /\ build \in Builds
    /\ input \in StorageInputs
    /\ log = <<>>

\* the call returns ret, held in the cells held; it assigns nothing through
\* its argument
CallStored(op, format, ret, held) ==
    /\ log = <<>>
    /\ log' = <<[op |-> op, format |-> format, arg |-> Value(input),
                 ret |-> ret, held |-> held]>>
    /\ UNCHANGED <<build, input>>

DecodeStored(ret) ==
    /\ Kind(input) = "bytes"
    /\ CallStored("Decode", Value(input)[1], ret,
                  IF IsNil(ret.val) THEN Nil ELSE Ptr(ReadingCells(Deref(ret.val))))

CallDecodeStored == DecodeStored(DecoderOf(build, Value(input)))

EncodeStored(ret) ==
    /\ Kind(input) = "reading"
    /\ CallStored("Encode", Format(input), ret,
                  IF IsNil(ret.val) THEN Nil ELSE Ptr(Fresh(Deref(ret.val))))

CallEncodeStored == EncodeStored(EncoderOf(build, Format(input), Value(input)))

\* after the call the caller overwrites one byte of the slice it passed
Overwrite ==
    /\ log # <<>>
    /\ Kind(input) = "bytes"
    /\ Value(input) = log[1].arg
    /\ \E k \in 1..Len(Value(input)), v \in {0, 255} :
           /\ v # Value(input)[k]
           /\ input' = Bytes([Value(input) EXCEPT ![k] = v])
    /\ UNCHANGED <<build, log>>

\* after the call the caller clears one slot of the reading it passed, or
\* stores another address in it
Modify ==
    /\ log # <<>>
    /\ Kind(input) = "reading"
    /\ Value(input) = log[1].arg
    /\ \E k \in DOMAIN Deref(Value(input)), v \in {Nil, Ptr(<<1, 2, 3, 4, 5, 6>>)} :
           /\ v = Nil \/ k = "MACAddress"
           /\ IsNil(v) # IsNil(Deref(Value(input))[k])
                  \/ (~IsNil(v) /\ v # Deref(Value(input))[k])
           /\ input' = Reading(Format(input),
                               Ptr([Deref(Value(input)) EXCEPT ![k] = v]))
    /\ UNCHANGED <<build, log>>

NextStorage ==
    \/ CallDecodeStored
    \/ CallEncodeStored
    \/ Overwrite
    \/ Modify

SpecStorage == InitStorage /\ [][NextStorage]_vars

\* C21: a decoder and an encoder leave their argument as it was, and what
\* they return shares no storage with it: whatever the caller writes into
\* the byte slice afterwards, every slot of the decoded reading
\* (MovementCounter, MeasurementSequence, MACAddress and TagID included)
\* reads as it did when the call returned, and whatever it changes in the
\* reading afterwards, the encoded bytes stay as they were returned.
C21_NoSharedStorage ==
    /\ [](\A i \in Calls :
             /\ log[i].op = "Decode" =>
                    /\ Succeeded(log[i])
                    /\ LoadReading(Deref(log[i].held), Value(input))
                           = Deref(log[i].ret.val)
             /\ log[i].op = "Encode" =>
                    /\ Succeeded(log[i])
                    /\ Load(Deref(log[i].held), Value(input)) = Deref(log[i].ret.val))
    /\ [][log' # log => input' = input]_vars

\* the caller overwrote a byte of the device identifier in the frame it had
\* DecodeFormat5 decode to a present MACAddress
C21_Witness ==
    /\ log # <<>>
    /\ log[1].op = "Decode" /\ log[1].format = 5
    /\ "held" \in DOMAIN log[1]
    /\ Kind(input) = "bytes"
    /\ BytesAt(Value(input), 18, 6) # BytesAt(log[1].arg, 18, 6)
    /\ Deref(log[1].ret.val).MACAddress = Ptr(BytesAt(log[1].arg, 18, 6))

====
